---- MODULE Spec2Model ----
(***************************************************************************)
(* GA4 MCP server: the credential resolver with its client cache           *)
(* (src/src/utils/auth.ts, second half, lines 392-953) and the GTM -> GA4  *)
(* parameter validation engine (src/unnamed/part_001).                     *)
(*                                                                         *)
(* Conventions.  A JavaScript null / undefined / "" is the empty string    *)
(* for strings, 0 for expiry_date (the code itself reads                   *)
(* `expiry_date || 0`), -1 for the cached mtime, and a record with         *)
(* exists = FALSE (NoFile) or mode = "null" (NullClient) for objects.      *)
(* Every credential field holds the name of the place it was read from     *)
(* ("env", "ga4", "shared", ...), so that a client built from two places   *)
(* is visible in the state.                                                *)
(***************************************************************************)
EXTENDS Integers, Sequences, FiniteSets, TLC

VARIABLES
    env,                \* process.env
    fs,                 \* the credential and token files, by path
    now,                \* Date.now()
    stamp,              \* the number of file writes so far (source of mtimes)
    cachedAdminClient,
    cachedDataClient,
    cachedAuthMode,
    cachedEmail,
    cachedTokenMtime,
    cachedTokenPath,
    req,                \* the client requests in flight or finished, by slot
    settled,            \* the kinds of client handed out since the last change
                        \* of a token file by another program
    vpc,                \* validateGTMParameters: where the run stands
    propertyId,         \* its arguments
    gtmEvents,
    registeredDimensions,
    registeredParams,
    notRegisteredParams,
    idx,                \* the position of the for loop over registeredParams
    nrows,              \* rows of the current report consumed so far
    parameterData,
    apiCalls,
    summary,            \* the ValidationSummary returned
    issued,             \* the upstream calls made, in order
    failed,             \* the parameters whose report call was rejected
    counted,            \* per parameter and event name, the eventCount of the
                        \* counted rows the reports held
    gtmExportJson,      \* parseGTMExport: its argument
    extracted,          \* and the GTMEventConfig list it returned
    tool                \* handleToolCall: the call in progress and its response

authVars == <<env, fs, now, stamp, cachedAdminClient, cachedDataClient,
              cachedAuthMode, cachedEmail, cachedTokenMtime, cachedTokenPath, req,
              settled>>

valVars == <<vpc, propertyId, gtmEvents, registeredDimensions, registeredParams,
             notRegisteredParams, idx, nrows, parameterData, apiCalls, summary,
             issued, failed, counted>>

parseVars == <<gtmExportJson, extracted>>

toolVars == <<tool>>

vars == <<authVars, valVars, parseVars, toolVars>>

(***************************************************************************)
(* Bounds of the model.                                                    *)
(***************************************************************************)
MaxStamp == 2           \* file writes (external or by the server) in one run

MaxEvents == 2          \* events in one validation request

MaxRows == 2            \* rows in one report

MaxTags == 1            \* tags in one container export

MaxNameLen == 4         \* characters after the marker of a tag display name

MaxIdLen == 3           \* characters of a property id

(***************************************************************************)
(* Program constants.                                                      *)
(***************************************************************************)
RefreshMarginMs == 60000

\* the instants Date.now() takes, and the lifetime of a refreshed token
StartTime == RefreshMarginMs
Times == {StartTime, StartTime + RefreshMarginMs}
TokenLifetimeMs == 60 * RefreshMarginMs

(***************************************************************************)
(* Paths.                                                                  *)
(***************************************************************************)
SHARED_TOKEN_PATH == "~/.claude/mcp-tokens/google.json"
gtmTokenPath == "~/.gtm-mcp/access-token.json"
ga4TokenPath == "~/.ga4-mcp/tokens.json"
adcPath == "~/.config/gcloud/application_default_credentials.json"
configPath == "~/.ga4-mcp/credentials.json"
credPath == "Credential/*.json"
gacPath == "$GOOGLE_APPLICATION_CREDENTIALS"

TokenPaths == {SHARED_TOKEN_PATH, gtmTokenPath, ga4TokenPath}
Paths == TokenPaths \cup {adcPath, configPath, credPath, gacPath}

(***************************************************************************)
(* File contents.  json = FALSE is a file JSON.parse throws on.            *)
(***************************************************************************)
NoFile ==
    [exists |-> FALSE, json |-> FALSE, type |-> "", access_token |-> "",
     refresh_token |-> "", client_id |-> "", client_secret |-> "",
     expiry_date |-> 0, client_email |-> "", private_key |-> "", mtime |-> 0]

Bad == [NoFile EXCEPT !.exists = TRUE]

Bare(tag) == [NoFile EXCEPT !.exists = TRUE, !.json = TRUE, !.access_token = tag]

Partial(tag) == [Bare(tag) EXCEPT !.refresh_token = tag]

Full(tag, e) ==
    [Bare(tag) EXCEPT !.refresh_token = tag, !.client_id = tag,
                      !.client_secret = tag, !.expiry_date = e]

\* a full-OAuth token file that holds fields the server does not use
Annotated(tag, e) ==
    [Full(tag, e) EXCEPT !.type = "authorized_user", !.client_email = "owner"]

Adc(tag) ==
    [NoFile EXCEPT !.exists = TRUE, !.json = TRUE, !.type = "authorized_user",
                   !.refresh_token = tag, !.client_id = tag, !.client_secret = tag]

Sa(tag) ==
    [NoFile EXCEPT !.exists = TRUE, !.json = TRUE, !.type = "service_account",
                   !.client_email = tag, !.private_key = tag]

NullClient ==
    [mode |-> "null", access_token |-> "", refresh_token |-> "", client_id |-> "",
     client_secret |-> "", expiry_date |-> 0, email |-> ""]

(***************************************************************************)
(* Credential source readers.                                              *)
(***************************************************************************)
getOAuthTokensFromEnv ==
    IF /\ env.GA4_ACCESS_TOKEN # "" /\ env.GA4_REFRESH_TOKEN # ""
       /\ env.GA4_CLIENT_ID # "" /\ env.GA4_CLIENT_SECRET # ""
    THEN [NoFile EXCEPT !.exists = TRUE, !.json = TRUE,
                        !.access_token = env.GA4_ACCESS_TOKEN,
                        !.refresh_token = env.GA4_REFRESH_TOKEN,
                        !.client_id = env.GA4_CLIENT_ID,
                        !.client_secret = env.GA4_CLIENT_SECRET]
    ELSE NoFile

getAccessTokenOnlyFromEnv ==
    IF /\ env.GA4_ACCESS_TOKEN # ""
       /\ ~(env.GA4_REFRESH_TOKEN # "" /\ env.GA4_CLIENT_ID # "" /\ env.GA4_CLIENT_SECRET # "")
    THEN env.GA4_ACCESS_TOKEN
    ELSE ""

getOAuthTokensFromFile ==
    LET tokens == fs[ga4TokenPath] IN
    IF /\ tokens.exists /\ tokens.json
       /\ tokens.refresh_token # "" /\ tokens.client_id # "" /\ tokens.client_secret # ""
    THEN tokens
    ELSE NoFile

\* a lookup that takes the access token of tokens.json whatever else the file holds
getAccessTokenOnlyFromFile_LegacyAlways ==
    LET shared == fs[SHARED_TOKEN_PATH]
        gtm == fs[gtmTokenPath]
        ga4 == fs[ga4TokenPath]
    IN  IF shared.exists /\ shared.json /\ shared.access_token # ""
        THEN shared.access_token
        ELSE IF gtm.exists /\ gtm.json /\ gtm.access_token # ""
        THEN gtm.access_token
        ELSE IF ga4.exists /\ ga4.json /\ ga4.access_token # ""
        THEN ga4.access_token
        ELSE ""

getAccessTokenOnlyFromFile ==
    LET shared == fs[SHARED_TOKEN_PATH]
        gtm == fs[gtmTokenPath]
        ga4 == fs[ga4TokenPath]
    IN  IF shared.exists /\ shared.json /\ shared.access_token # ""
        THEN shared.access_token
        ELSE IF gtm.exists /\ gtm.json /\ gtm.access_token # ""
        THEN gtm.access_token
        ELSE IF /\ ga4.exists /\ ga4.json /\ ga4.access_token # ""
                /\ ~(ga4.refresh_token # "" /\ ga4.client_id # "" /\ ga4.client_secret # "")
        THEN ga4.access_token
        ELSE ""

IsAdc(creds) ==
    /\ creds.exists /\ creds.json
    /\ creds.type = "authorized_user"
    /\ creds.refresh_token # "" /\ creds.client_id # "" /\ creds.client_secret # ""

getADCCredentials ==
    IF env.GOOGLE_APPLICATION_CREDENTIALS # "" /\ IsAdc(fs[gacPath])
    THEN fs[gacPath]
    ELSE IF IsAdc(fs[adcPath])
    THEN fs[adcPath]
    ELSE NoFile

IsSa(creds) ==
    creds.exists /\ creds.json /\ creds.client_email # "" /\ creds.private_key # ""

getServiceAccountCredentials ==
    IF IsSa(env.GA4_SERVICE_ACCOUNT_JSON)
    THEN env.GA4_SERVICE_ACCOUNT_JSON
    ELSE IF env.GOOGLE_APPLICATION_CREDENTIALS # "" /\ IsSa(fs[gacPath])
    THEN fs[gacPath]
    ELSE IF IsSa(fs[configPath])
    THEN fs[configPath]
    ELSE IF IsSa(fs[credPath])
    THEN fs[credPath]
    ELSE NoFile

(***************************************************************************)
(* getAuthClient: the synchronous part of the resolution, up to the first  *)
(* network call.  It yields the source chosen and the payload read.        *)
(***************************************************************************)
AccessTokenOnly(accessToken) ==
    [NoFile EXCEPT !.exists = TRUE, !.json = TRUE, !.access_token = accessToken]

\* a resolver that tries the service account before ADC
getAuthClient_ServiceAccountFirst ==
    IF getOAuthTokensFromEnv.exists
    THEN [source |-> "oauth_env", create |-> "oauth", tokens |-> getOAuthTokensFromEnv]
    ELSE IF getOAuthTokensFromFile.exists
    THEN [source |-> "oauth_file", create |-> "oauth", tokens |-> getOAuthTokensFromFile]
    ELSE IF getServiceAccountCredentials.exists
    THEN [source |-> "service_account", create |-> "service_account",
          tokens |-> getServiceAccountCredentials]
    ELSE IF getADCCredentials.exists
    THEN [source |-> "adc", create |-> "adc", tokens |-> getADCCredentials]
    ELSE IF getAccessTokenOnlyFromEnv # ""
    THEN [source |-> "token_env", create |-> "access-token",
          tokens |-> AccessTokenOnly(getAccessTokenOnlyFromEnv)]
    ELSE IF getAccessTokenOnlyFromFile # ""
    THEN [source |-> "token_file", create |-> "access-token",
          tokens |-> AccessTokenOnly(getAccessTokenOnlyFromFile)]
    ELSE [source |-> "none", create |-> "none", tokens |-> NoFile]

getAuthClient ==
    IF getOAuthTokensFromEnv.exists
    THEN [source |-> "oauth_env", create |-> "oauth", tokens |-> getOAuthTokensFromEnv]
    ELSE IF getOAuthTokensFromFile.exists
    THEN [source |-> "oauth_file", create |-> "oauth", tokens |-> getOAuthTokensFromFile]
    ELSE IF getADCCredentials.exists
    THEN [source |-> "adc", create |-> "adc", tokens |-> getADCCredentials]
    ELSE IF getServiceAccountCredentials.exists
    THEN [source |-> "service_account", create |-> "service_account",
          tokens |-> getServiceAccountCredentials]
    ELSE IF getAccessTokenOnlyFromEnv # ""
    THEN [source |-> "token_env", create |-> "access-token",
          tokens |-> AccessTokenOnly(getAccessTokenOnlyFromEnv)]
    ELSE IF getAccessTokenOnlyFromFile # ""
    THEN [source |-> "token_file", create |-> "access-token",
          tokens |-> AccessTokenOnly(getAccessTokenOnlyFromFile)]
    ELSE [source |-> "none", create |-> "none", tokens |-> NoFile]

(***************************************************************************)
(* The clients the four constructors build.                                *)
(***************************************************************************)
OAuthClient(tokens) ==
    [NullClient EXCEPT !.mode = "oauth", !.access_token = tokens.access_token,
                       !.refresh_token = tokens.refresh_token,
                       !.client_id = tokens.client_id,
                       !.client_secret = tokens.client_secret,
                       !.expiry_date = tokens.expiry_date]

ADCClient(creds) ==
    [NullClient EXCEPT !.mode = "adc", !.refresh_token = creds.refresh_token,
                       !.client_id = creds.client_id,
                       !.client_secret = creds.client_secret]

ServiceAccountClient(credentials) ==
    [NullClient EXCEPT !.mode = "service_account", !.email = credentials.client_email,
                       !.client_secret = credentials.private_key]

AccessTokenOnlyClient(tokens) ==
    [NullClient EXCEPT !.mode = "access-token", !.access_token = tokens.access_token]

\* oauth2Client.setCredentials(credentials) with the answer of the refresh grant
Refreshed(client) ==
    [client EXCEPT !.access_token = "refreshed", !.expiry_date = now + TokenLifetimeMs]

\* a refresh test that leaves out the margin of one minute
NeedsRefresh_NoMargin(tokens) ==
    tokens.expiry_date # 0 /\ tokens.expiry_date < now

\* a refresh test that takes a missing expiry for an expired token
NeedsRefresh_MissingExpiryIsExpired(tokens) ==
    tokens.expiry_date < now + RefreshMarginMs

\* createOAuthClient, line 736: expiryDate && expiryDate < now + 60000
NeedsRefresh(tokens) ==
    tokens.expiry_date # 0 /\ tokens.expiry_date < now + RefreshMarginMs

\* a write-back that keeps the fields of OAuthTokens and drops the others
updatedTokens_KnownFieldsOnly(tokens, credentials) ==
    [NoFile EXCEPT !.exists = TRUE, !.json = TRUE,
                   !.access_token = credentials.access_token,
                   !.refresh_token = tokens.refresh_token,
                   !.client_id = tokens.client_id,
                   !.client_secret = tokens.client_secret,
                   !.expiry_date = credentials.expiry_date]

\* createOAuthClient, lines 748-752: what is written back to tokens.json
updatedTokens(tokens, credentials) ==
    [tokens EXCEPT !.access_token = IF credentials.access_token # ""
                                    THEN credentials.access_token
                                    ELSE tokens.access_token,
                   !.expiry_date = credentials.expiry_date]

(***************************************************************************)
(* The client cache and its invalidation.                                  *)
(***************************************************************************)
getTokenFileMtime ==
    IF fs[SHARED_TOKEN_PATH].exists
    THEN [found |-> TRUE, mtime |-> fs[SHARED_TOKEN_PATH].mtime, path |-> SHARED_TOKEN_PATH]
    ELSE IF fs[gtmTokenPath].exists
    THEN [found |-> TRUE, mtime |-> fs[gtmTokenPath].mtime, path |-> gtmTokenPath]
    ELSE IF fs[ga4TokenPath].exists
    THEN [found |-> TRUE, mtime |-> fs[ga4TokenPath].mtime, path |-> ga4TokenPath]
    ELSE [found |-> FALSE, mtime |-> -1, path |-> ""]

\* a change test that compares the path alone
TokenFileChanged_PathOnly ==
    LET tokenInfo == getTokenFileMtime IN
    /\ tokenInfo.found
    /\ cachedTokenMtime # -1 /\ cachedTokenPath # ""
    /\ tokenInfo.path # cachedTokenPath

\* checkAndInvalidateCache, lines 490-493: the cache is to be dropped
TokenFileChanged ==
    LET tokenInfo == getTokenFileMtime IN
    /\ tokenInfo.found
    /\ cachedTokenMtime # -1 /\ cachedTokenPath # ""
    /\ (tokenInfo.mtime # cachedTokenMtime \/ tokenInfo.path # cachedTokenPath)

\* an invalidation that spares the clients that can refresh themselves
checkAndInvalidateCache_AccessTokenOnly ==
    LET tokenInfo == getTokenFileMtime
        drop == TokenFileChanged /\ cachedAuthMode = "access-token"
    IN  [admin |-> IF drop THEN NullClient ELSE cachedAdminClient,
         data  |-> IF drop THEN NullClient ELSE cachedDataClient,
         mode  |-> IF drop THEN "null" ELSE cachedAuthMode,
         email |-> IF drop THEN "" ELSE cachedEmail,
         mtime |-> IF tokenInfo.found THEN tokenInfo.mtime ELSE cachedTokenMtime,
         path  |-> IF tokenInfo.found THEN tokenInfo.path ELSE cachedTokenPath]

\* an invalidation that also drops the cache when the fingerprinted file is gone
checkAndInvalidateCache_MissingFileClears ==
    LET tokenInfo == getTokenFileMtime
        drop == TokenFileChanged \/ (~tokenInfo.found /\ cachedTokenPath # "")
    IN  [admin |-> IF drop THEN NullClient ELSE cachedAdminClient,
         data  |-> IF drop THEN NullClient ELSE cachedDataClient,
         mode  |-> IF drop THEN "null" ELSE cachedAuthMode,
         email |-> IF drop THEN "" ELSE cachedEmail,
         mtime |-> IF tokenInfo.found THEN tokenInfo.mtime ELSE -1,
         path  |-> IF tokenInfo.found THEN tokenInfo.path ELSE ""]

\* the cache as checkAndInvalidateCache leaves it
checkAndInvalidateCache ==
    LET tokenInfo == getTokenFileMtime IN
    [admin |-> IF TokenFileChanged THEN NullClient ELSE cachedAdminClient,
     data  |-> IF TokenFileChanged THEN NullClient ELSE cachedDataClient,
     mode  |-> IF TokenFileChanged THEN "null" ELSE cachedAuthMode,
     email |-> IF TokenFileChanged THEN "" ELSE cachedEmail,
     mtime |-> IF tokenInfo.found THEN tokenInfo.mtime ELSE cachedTokenMtime,
     path  |-> IF tokenInfo.found THEN tokenInfo.path ELSE cachedTokenPath]

\* getCredentialsInfo, lines 907-948: the cached mode with the cached email, or
\* else the mode of the first credential source available, read without
\* authenticating; found = FALSE is the null it returns when there is none
getCredentialsInfo ==
    IF cachedAuthMode # "null"
    THEN [found |-> TRUE, mode |-> cachedAuthMode, email |-> cachedEmail]
    ELSE IF getOAuthTokensFromEnv.exists \/ getOAuthTokensFromFile.exists
    THEN [found |-> TRUE, mode |-> "oauth", email |-> ""]
    ELSE IF getADCCredentials.exists
    THEN [found |-> TRUE, mode |-> "adc", email |-> ""]
    ELSE IF getServiceAccountCredentials.exists
    THEN [found |-> TRUE, mode |-> "service_account",
          email |-> getServiceAccountCredentials.client_email]
    ELSE IF getAccessTokenOnlyFromEnv # "" \/ getAccessTokenOnlyFromFile # ""
    THEN [found |-> TRUE, mode |-> "access-token", email |-> ""]
    ELSE [found |-> FALSE, mode |-> "null", email |-> ""]

(***************************************************************************)
(* Client requests.  A request runs getAnalyticsAdminClient ("admin") or   *)
(* getAnalyticsDataClient ("data").  Its steps are the stretches of code   *)
(* between two awaits:                                                     *)
(*   Start      lines 871-879 / 889-897 and getAuthClient up to the first  *)
(*              await that leaves the process (refreshAccessToken,         *)
(*              authorize) or up to the return of the constructor;         *)
(*   Refresh..  the answer of refreshAccessToken and the code after it;    *)
(*   Authorize..the answer of auth.authorize() and the code after it;      *)
(*   Finish     lines 880-885 / 898-903, the assignment of the cache.      *)
(* The fields at, changed, refreshes, writes, resolved and fromCache only  *)
(* record what the request saw and did: the time it started at, whether    *)
(* it found the fingerprinted file with another mtime while a client of    *)
(* its kind was cached, the refresh calls it made and whether the grant    *)
(* succeeded, the file writes it made, whether another program changed a  *)
(* token file while it ran, whether it ran getAuthClient, whether it       *)
(* returned the cached client, and whether the request before it found no  *)
(* credentials.                                                            *)
(***************************************************************************)
Kinds == {"admin", "data"}

Reqs == {1}

IdleReq ==
    [kind |-> "", pc |-> "idle", source |-> "", create |-> "", tokens |-> NoFile,
     client |-> NullClient, resolved |-> FALSE, fromCache |-> FALSE,
     refreshes |-> 0, granted |-> FALSE, writes |-> 0, error |-> "", at |-> 0,
     changed |-> FALSE, disturbed |-> FALSE, retry |-> FALSE]

OAuthRefreshError == "Failed to refresh OAuth token. Please re-authenticate."
ADCRefreshError == "Failed to refresh ADC token. Please run: gcloud auth application-default login"
NoCredentialsError == "No credentials found. Please either: ..."
AuthorizeError == "authorize() rejected"

Free(r) == req[r].pc \in {"idle", "done", "failed"}

\* the request record after the synchronous part of getAuthClient
Resolution(k, plan) ==
    LET base == [IdleReq EXCEPT !.kind = k, !.at = now, !.source = plan.source,
                                !.create = plan.create, !.tokens = plan.tokens,
                                !.resolved = TRUE]
    IN  CASE plan.create = "oauth" ->
               IF NeedsRefresh(plan.tokens)
               THEN [base EXCEPT !.pc = "refreshing", !.refreshes = 1,
                                 !.client = OAuthClient(plan.tokens)]
               ELSE [base EXCEPT !.pc = "built", !.client = OAuthClient(plan.tokens)]
          [] plan.create = "adc" ->
               [base EXCEPT !.pc = "refreshing", !.refreshes = 1,
                            !.client = ADCClient(plan.tokens)]
          [] plan.create = "service_account" ->
               [base EXCEPT !.pc = "authorizing",
                            !.client = ServiceAccountClient(plan.tokens)]
          [] plan.create = "access-token" ->
               [base EXCEPT !.pc = "built", !.client = AccessTokenOnlyClient(plan.tokens)]
          [] OTHER ->
               [base EXCEPT !.pc = "failed", !.error = NoCredentialsError]

\* a resolver that records the auth mode before it knows the outcome
ModeSetAtStart_BeforeOutcome(new, mode) ==
    IF new.resolved THEN new.create ELSE mode

\* cachedAuthMode as the constructors set it before they return (lines 761, 810)
ModeSetAtStart(new, mode) ==
    IF new.pc = "built" THEN new.create ELSE mode

\* a client of kind k is cached and the file the fingerprint names has another mtime
SawChange(k) ==
    /\ (IF k = "admin" THEN cachedAdminClient ELSE cachedDataClient) # NullClient
    /\ cachedTokenPath # ""
    /\ fs[cachedTokenPath].exists
    /\ fs[cachedTokenPath].mtime # cachedTokenMtime

\* the request before this one ended with the no-credentials error
FoundNone(r) == req[r].pc = "failed" /\ req[r].error = NoCredentialsError

\* getAnalyticsAdminClient / getAnalyticsDataClient up to their first await
Request(r, k) ==
    /\ Free(r)
    /\ LET c == checkAndInvalidateCache
           cached == IF k = "admin" THEN c.admin ELSE c.data
           new == IF cached.mode # "null"
                  THEN [IdleReq EXCEPT !.kind = k, !.at = now, !.pc = "done",
                                       !.client = cached, !.fromCache = TRUE]
                  ELSE Resolution(k, getAuthClient)
       IN  /\ req' = [req EXCEPT ![r] = [new EXCEPT !.changed = SawChange(k),
                                                    !.retry = FoundNone(r)]]
           /\ settled' = IF new.pc = "done" THEN settled \cup {k} ELSE settled
           /\ cachedAdminClient' = c.admin
           /\ cachedDataClient' = c.data
           /\ cachedAuthMode' = ModeSetAtStart(new, c.mode)
           /\ cachedEmail' = c.email
           /\ cachedTokenMtime' = c.mtime
           /\ cachedTokenPath' = c.path
    /\ UNCHANGED <<env, fs, now, stamp>>

\* a client request made on its own
Start(r, k) ==
    /\ Request(r, k)
    /\ UNCHANGED <<valVars, parseVars, toolVars>>

\* refreshAccessToken answers, the token file is written (createOAuthClient 739-754)
\* or the ADC client takes the new credentials (createADCClient 778-780)
RefreshSucceeds(r) ==
    /\ req[r].pc = "refreshing"
    /\ LET client == Refreshed(req[r].client) IN
       IF req[r].create = "oauth"
       THEN /\ stamp < MaxStamp
            /\ stamp' = stamp + 1
            /\ fs' = [fs EXCEPT ![ga4TokenPath] =
                        [updatedTokens(req[r].tokens, client) EXCEPT
                            !.exists = TRUE, !.json = TRUE, !.mtime = stamp + 1]]
            /\ req' = [req EXCEPT ![r].pc = "built", ![r].client = client,
                                  ![r].granted = TRUE, ![r].writes = @ + 1]
            /\ cachedAuthMode' = "oauth"
       ELSE /\ req' = [req EXCEPT ![r].pc = "built", ![r].client = client,
                                  ![r].granted = TRUE]
            /\ cachedAuthMode' = "adc"
            /\ UNCHANGED <<fs, stamp>>
    /\ UNCHANGED <<env, now, cachedAdminClient, cachedDataClient, cachedEmail,
                   cachedTokenMtime, cachedTokenPath>>
    /\ UNCHANGED settled
    /\ UNCHANGED <<valVars, parseVars, toolVars>>

\* a catch block that falls back to the bare access token of the token files
RefreshFails_FallsThrough(r) ==
    /\ req[r].pc = "refreshing"
    /\ req' = [req EXCEPT ![r].pc = "built", ![r].source = "token_file",
                          ![r].create = "access-token",
                          ![r].client = AccessTokenOnlyClient(
                                            AccessTokenOnly(getAccessTokenOnlyFromFile))]
    /\ cachedAuthMode' = "access-token"
    /\ UNCHANGED <<env, fs, now, stamp, cachedAdminClient, cachedDataClient,
                   cachedEmail, cachedTokenMtime, cachedTokenPath, settled>>
    /\ UNCHANGED <<valVars, parseVars, toolVars>>

\* refreshAccessToken rejects: the catch blocks at 755-758 and 781-784 throw
RefreshFails(r) ==
    /\ req[r].pc = "refreshing"
    /\ req' = [req EXCEPT ![r].pc = "failed", ![r].client = NullClient,
                          ![r].error = IF req[r].create = "oauth"
                                       THEN OAuthRefreshError ELSE ADCRefreshError]
    /\ UNCHANGED <<env, fs, now, stamp, cachedAdminClient, cachedDataClient,
                   cachedAuthMode, cachedEmail, cachedTokenMtime, cachedTokenPath>>
    /\ UNCHANGED settled
    /\ UNCHANGED <<valVars, parseVars, toolVars>>

\* the grant succeeds and writeFileSync throws: the same catch block (755-758)
WriteFails(r) ==
    /\ req[r].pc = "refreshing"
    /\ req[r].create = "oauth"
    /\ req' = [req EXCEPT ![r].pc = "failed", ![r].client = NullClient,
                          ![r].granted = TRUE, ![r].error = OAuthRefreshError]
    /\ UNCHANGED <<env, fs, now, stamp, cachedAdminClient, cachedDataClient,
                   cachedAuthMode, cachedEmail, cachedTokenMtime, cachedTokenPath>>
    /\ UNCHANGED settled
    /\ UNCHANGED <<valVars, parseVars, toolVars>>

\* createServiceAccountClient, lines 798-801
AuthorizeSucceeds(r) ==
    /\ req[r].pc = "authorizing"
    /\ req' = [req EXCEPT ![r].pc = "built"]
    /\ cachedAuthMode' = "service_account"
    /\ cachedEmail' = req[r].tokens.client_email
    /\ UNCHANGED <<env, fs, now, stamp, cachedAdminClient, cachedDataClient,
                   cachedTokenMtime, cachedTokenPath>>
    /\ UNCHANGED settled
    /\ UNCHANGED <<valVars, parseVars, toolVars>>

AuthorizeFails(r) ==
    /\ req[r].pc = "authorizing"
    /\ req' = [req EXCEPT ![r].pc = "failed", ![r].client = NullClient,
                          ![r].error = AuthorizeError]
    /\ UNCHANGED <<env, fs, now, stamp, cachedAdminClient, cachedDataClient,
                   cachedAuthMode, cachedEmail, cachedTokenMtime, cachedTokenPath>>
    /\ UNCHANGED settled
    /\ UNCHANGED <<valVars, parseVars, toolVars>>

\* lines 880-885 / 898-903
Finish(r) ==
    /\ req[r].pc = "built"
    /\ req' = [req EXCEPT ![r].pc = "done"]
    /\ IF req[r].kind = "admin"
       THEN cachedAdminClient' = req[r].client /\ UNCHANGED cachedDataClient
       ELSE cachedDataClient' = req[r].client /\ UNCHANGED cachedAdminClient
    /\ UNCHANGED <<env, fs, now, stamp, cachedAuthMode, cachedEmail,
                   cachedTokenMtime, cachedTokenPath>>
    /\ settled' = IF req[r].disturbed THEN settled ELSE settled \cup {req[r].kind}
    /\ UNCHANGED <<valVars, parseVars, toolVars>>

(***************************************************************************)
(* The world around the server: other programs write and delete the token  *)
(* files, and time passes.                                                 *)
(***************************************************************************)
ExpiryDates == {0, 2 * RefreshMarginMs}

TokenFileContents(path) ==
    IF path = ga4TokenPath
    THEN {Bare("ga4")} \cup {Full("ga4", e) : e \in ExpiryDates}
    ELSE IF path = SHARED_TOKEN_PATH THEN {Bare("shared")}
    ELSE {Bare("gtm")}

\* the token files other programs rewrite while the server runs
RewrittenPaths == {SHARED_TOKEN_PATH, ga4TokenPath}

Disturb == [r \in Reqs |-> IF Free(r) THEN req[r] ELSE [req[r] EXCEPT !.disturbed = TRUE]]

ExternalWrite(path, content) ==
    /\ stamp < MaxStamp
    /\ stamp' = stamp + 1
    /\ fs' = [fs EXCEPT ![path] = [content EXCEPT !.mtime = stamp + 1]]
    /\ UNCHANGED <<env, now, cachedAdminClient, cachedDataClient, cachedAuthMode,
                   cachedEmail, cachedTokenMtime, cachedTokenPath>>
    /\ req' = Disturb
    /\ settled' = {}
    /\ UNCHANGED <<valVars, parseVars, toolVars>>

ExternalDelete(path) ==
    /\ fs[path].exists
    /\ fs' = [fs EXCEPT ![path] = NoFile]
    /\ UNCHANGED <<env, now, stamp, cachedAdminClient, cachedDataClient, cachedAuthMode,
                   cachedEmail, cachedTokenMtime, cachedTokenPath>>
    /\ req' = Disturb
    /\ settled' = {}
    /\ UNCHANGED <<valVars, parseVars, toolVars>>

Tick ==
    /\ now + RefreshMarginMs \in Times
    /\ now' = now + RefreshMarginMs
    /\ UNCHANGED <<env, fs, stamp, cachedAdminClient, cachedDataClient, cachedAuthMode,
                   cachedEmail, cachedTokenMtime, cachedTokenPath, req>>
    /\ UNCHANGED settled
    /\ UNCHANGED <<valVars, parseVars, toolVars>>

(***************************************************************************)
(* validateGTMParameters (src/unnamed/part_001).  A run is cut at its      *)
(* awaits: the metadata call, then one report call per registered          *)
(* parameter.  The rows of a report are consumed one at a time, as the     *)
(* loop of lines 101-109 does.  A parameter list keeps its duplicates;     *)
(* a JavaScript undefined count is -1.                                     *)
(***************************************************************************)
ParamNames == {"p1", "p2"}

EventNames == {"e1", "e2"}

\* a name that every JavaScript object inherits from Object.prototype (constructor,
\* toString, valueOf, hasOwnProperty, ...): looked up in a plain object used as a
\* map, it yields the inherited function instead of undefined
InheritedNames == {"constructor"}

AllEventNames == EventNames \cup InheritedNames

ParameterLists == {<<"p1">>, <<"p1", "p2">>, <<"p1", "p1">>}

GTMEventConfig == [eventName : EventNames, parameters : ParameterLists]

GtmEventInputs == UNION {[1..n -> GTMEventConfig] : n \in 0..MaxEvents}

\* a property id is a string, given as the sequence of its characters with the
\* prefix "properties/" as one character, or a number, or is missing, or is an
\* object; printable tells whether a template literal can convert it to a string
\* (an object such as {"toString": 1} has no callable toString and its valueOf
\* returns the object itself, so the conversion throws a TypeError)
Digits == {"0", "1", "2", "3", "4", "5", "6", "7", "8", "9"}

String(text) == [type |-> "string", text |-> text, number |-> 0, printable |-> TRUE]

Number(n) == [type |-> "number", text |-> <<>>, number |-> n, printable |-> TRUE]

Undefined == [type |-> "undefined", text |-> <<>>, number |-> 0, printable |-> TRUE]

Object(printable) ==
    [type |-> "object", text |-> <<>>, number |-> 0, printable |-> printable]

PropertyIds == {String(<<"4", "2">>), String(<<"x">>)}

PropertyIdChars == {"0", "4", " ", "x", "/", "properties/"}

PropertyIdTexts == UNION {[1..n -> PropertyIdChars] : n \in 0..MaxIdLen}

IsDigits(text) == Len(text) > 0 /\ \A i \in 1..Len(text) : text[i] \in Digits

\* String.prototype.trim
RECURSIVE trim(_)
trim(text) ==
    IF text # <<>> /\ Head(text) = " " THEN trim(Tail(text))
    ELSE IF text # <<>> /\ text[Len(text)] = " "
         THEN trim(SubSeq(text, 1, Len(text) - 1))
         ELSE text

\* parseInt(text, 10) of a digit string
RECURSIVE parseInt(_)
parseInt(text) ==
    IF text = <<>> THEN 0
    ELSE 10 * parseInt(SubSeq(text, 1, Len(text) - 1))
         + (CHOOSE n \in 0..9 : ToString(n) = text[Len(text)])

\* trimmed.split("/")[1] of a text that starts with "properties/"
RECURSIVE UpToSlash(_)
UpToSlash(text) ==
    IF text = <<>> \/ Head(text) = "/" THEN <<>>
    ELSE <<Head(text)>> \o UpToSlash(Tail(text))

\* the white space around the text is kept
constructPropertyResourceName_Untrimmed(id) ==
    IF id.type = "number" THEN "properties/" \o ToString(id.number)
    ELSE IF id.type = "string" /\ IsDigits(id.text)
    THEN "properties/" \o ToString(parseInt(id.text))
    ELSE IF id.type = "string" /\ id.text # <<>> /\ Head(id.text) = "properties/"
            /\ IsDigits(UpToSlash(Tail(id.text)))
    THEN "properties/" \o ToString(parseInt(UpToSlash(Tail(id.text))))
    ELSE ""

\* "" stands for the thrown "Invalid property ID" error
constructPropertyResourceName(id) ==
    LET trimmed == trim(id.text)
        numericPart == UpToSlash(Tail(trimmed))
    IN  IF id.type = "number" THEN "properties/" \o ToString(id.number)
        ELSE IF id.type = "string" /\ IsDigits(trimmed)
        THEN "properties/" \o ToString(parseInt(trimmed))
        ELSE IF id.type = "string" /\ trimmed # <<>> /\ Head(trimmed) = "properties/"
                /\ numericPart # <<>> /\ IsDigits(numericPart)
        THEN "properties/" \o ToString(parseInt(numericPart))
        ELSE ""

\* a dimension of the metadata answer; its apiName is prefix followed by name
Dimension ==
    [customDefinition : BOOLEAN, prefix : {"customEvent:", "customUser:"},
     name : ParamNames]

\* a row of a report: its two dimension values and its metric value
Row == [eventName : EventNames, paramValue : {"v", "", "(not set)"}, count : {0, 1}]

Range(s) == {s[i] : i \in DOMAIN s}

RECURSIVE Concat(_)
Concat(lists) ==
    IF lists = <<>> THEN <<>> ELSE Head(lists) \o Concat(Tail(lists))

\* the insertion order of a JavaScript Set fed with the elements of s
RECURSIVE SetOrder(_)
SetOrder(s) ==
    IF s = <<>> THEN <<>>
    ELSE LET front == SetOrder(SubSeq(s, 1, Len(s) - 1))
             last == s[Len(s)]
         IN  IF last \in Range(front) THEN front ELSE Append(front, last)

Filter(s, keep) ==
    LET RECURSIVE F(_)
        F(t) == IF t = <<>> THEN <<>>
                ELSE IF Head(t) \in keep THEN <<Head(t)>> \o F(Tail(t))
                ELSE F(Tail(t))
    IN  F(s)

\* lines 55-64
RegisteredDimensions(dims) ==
    {d.name : d \in {x \in dims : x.customDefinition /\ x.prefix = "customEvent:"}}

\* every parameter list appended to the previous, duplicates kept
allParameters_Concat(events) ==
    Concat([i \in DOMAIN events |-> events[i].parameters])

\* lines 69-72
allParameters(events) ==
    SetOrder(Concat([i \in DOMAIN events |-> events[i].parameters]))

\* every parameter, registered or not
RegisteredParams_All(events, registered) ==
    allParameters(events)

\* line 74
RegisteredParams(events, registered) ==
    Filter(allParameters(events), registered)

\* line 75
NotRegisteredParams(events, registered) ==
    Filter(allParameters(events), ParamNames \ registered)

\* what a lookup yields that is no number: the inherited function, or the string
\* that adding a count to it gives; compared with > 0 it is false
NonNumber == -2

\* parameterData[param] = {} (line 98), seen through the lookups of lines 107, 132
NoCounts == [e \in AllEventNames |-> IF e \in InheritedNames THEN NonNumber ELSE 0]

\* the sums of the counted rows, per event name, before any row
NoRows == [e \in AllEventNames |-> 0]

NoParameterData == [p \in ParamNames |-> [defined |-> FALSE, counts |-> NoCounts]]

\* a row counts whatever its parameter value is
Accumulate_AnyValue(counts, row) ==
    IF row.count > 0
    THEN [counts EXCEPT ![row.eventName] = @ + row.count]
    ELSE counts

\* a lookup that keeps the count of the last counted row instead of the sum
Accumulate_LastRow(counts, row) ==
    IF row.paramValue # "" /\ row.paramValue # "(not set)" /\ row.count > 0
    THEN [counts EXCEPT ![row.eventName] = row.count]
    ELSE counts

\* lines 102-108
Accumulate(counts, row) ==
    IF row.paramValue # "" /\ row.paramValue # "(not set)" /\ row.count > 0
    THEN [counts EXCEPT ![row.eventName] =
             IF @ = NonNumber THEN NonNumber ELSE @ + row.count]
    ELSE counts

\* a listing that names a parameter once per event, however often the event has it
Pairs_OncePerEvent(events) ==
    Concat([i \in DOMAIN events |->
              LET ps == events[i].parameters
                  first == {j \in DOMAIN ps : \A h \in 1..(j - 1) : ps[h] # ps[j]}
                  RECURSIVE Keep(_)
                  Keep(j) ==
                      IF j > Len(ps) THEN <<>>
                      ELSE (IF j \in first
                            THEN <<[eventName |-> events[i].eventName, parameter |-> ps[j]]>>
                            ELSE <<>>) \o Keep(j + 1)
              IN  Keep(1)])

\* lines 121-122: the (event, parameter) pairs in input order
Pairs(events) ==
    Concat([i \in DOMAIN events |->
              [j \in DOMAIN events[i].parameters |->
                  [eventName |-> events[i].eventName,
                   parameter |-> events[i].parameters[j]]]])

\* lines 123-152
Classify(pair, registered, data) ==
    IF pair.parameter \notin registered
    THEN [eventName |-> pair.eventName, parameter |-> pair.parameter,
          status |-> "not_registered", count |-> -1]
    ELSE LET count == data[pair.parameter].counts[pair.eventName]
         IN  IF count > 0
             THEN [eventName |-> pair.eventName, parameter |-> pair.parameter,
                   status |-> "collected", count |-> count]
             ELSE [eventName |-> pair.eventName, parameter |-> pair.parameter,
                   status |-> "not_collected", count |-> 0]

Results(events, registered, data) ==
    LET pairs == Pairs(events)
    IN  [i \in DOMAIN pairs |-> Classify(pairs[i], registered, data)]

CountOf(results, status) ==
    Cardinality({i \in DOMAIN results : results[i].status = status})

\* lines 169-172: notCollectedByEvent is a plain object; for an inherited name the
\* test of line 169 finds the inherited function, no list is created, and push,
\* which that function does not have, is called: a TypeError
PushThrows(results) ==
    \E i \in DOMAIN results :
        results[i].status = "not_collected" /\ results[i].eventName \in InheritedNames

\* lines 157-179
Recommendations(results, notRegistered) ==
    LET missing == {i \in DOMAIN results : results[i].status = "not_collected"}
        RECURSIVE Pick(_, _)
        Pick(i, e) ==
            IF i > Len(results) THEN <<>>
            ELSE IF i \in missing /\ results[i].eventName = e
                 THEN <<results[i].parameter>> \o Pick(i + 1, e)
                 ELSE Pick(i + 1, e)
        RECURSIVE Names(_)
        Names(i) ==
            IF i > Len(results) THEN <<>>
            ELSE IF i \in missing THEN <<results[i].eventName>> \o Names(i + 1)
                 ELSE Names(i + 1)
        events == SetOrder(Names(1))
    IN  (IF notRegistered # <<>>
         THEN <<[about |-> "register", eventName |-> "", parameters |-> notRegistered]>>
         ELSE <<>>)
        \o [i \in DOMAIN events |->
              [about |-> "not_collected", eventName |-> events[i],
               parameters |-> Pick(1, events[i])]]

NoSummary ==
    [returned |-> FALSE, totalEvents |-> 0, totalParameters |-> 0, collected |-> 0,
     notCollected |-> 0, notRegistered |-> 0, details |-> <<>>,
     recommendations |-> <<>>, apiCalls |-> 0]

\* lines 116-190
Summary(events, registered, notRegistered, data, calls) ==
    LET results == Results(events, registered, data)
    IN  [returned |-> TRUE,
         totalEvents |-> Len(events),
         totalParameters |-> Len(allParameters(events)),
         collected |-> CountOf(results, "collected"),
         notCollected |-> CountOf(results, "not_collected"),
         notRegistered |-> CountOf(results, "not_registered"),
         details |-> results,
         recommendations |-> Recommendations(results, notRegistered),
         apiCalls |-> calls]

MetadataCall == [method |-> "getMetadata", param |-> ""]

ReportCall(param) == [method |-> "runReport", param |-> param]

InitVal ==
    /\ vpc = "idle"
    /\ propertyId = Undefined
    /\ gtmEvents = <<>>
    /\ registeredDimensions = {}
    /\ registeredParams = <<>>
    /\ notRegisteredParams = <<>>
    /\ idx = 0
    /\ nrows = 0
    /\ parameterData = NoParameterData
    /\ apiCalls = 0
    /\ summary = NoSummary
    /\ issued = <<>>
    /\ failed = {}
    /\ counted = [p \in ParamNames |-> NoRows]

\* lines 44-52: the reporting client is taken as obtained (Start(r, "data") is the
\* request for it); the property id is checked and the metadata call goes out
Validation(id, events) ==
    /\ vpc = "idle"
    /\ propertyId' = id
    /\ gtmEvents' = events
    /\ registeredDimensions' = {}
    /\ registeredParams' = <<>>
    /\ notRegisteredParams' = <<>>
    /\ idx' = 0
    /\ nrows' = 0
    /\ parameterData' = NoParameterData
    /\ apiCalls' = 0
    /\ summary' = NoSummary
    /\ failed' = {}
    /\ counted' = [p \in ParamNames |-> NoRows]
    /\ IF constructPropertyResourceName(id) = ""
       THEN vpc' = "thrown" /\ issued' = <<>>
       ELSE vpc' = "metadata" /\ issued' = <<MetadataCall>>

\* a run of validateGTMParameters on its own
Validate(id, events) ==
    /\ Validation(id, events)
    /\ UNCHANGED <<authVars, parseVars, toolVars>>

\* the metadata call is rejected: validateGTMParameters throws
MetadataFails ==
    /\ vpc = "metadata"
    /\ vpc' = "thrown"
    /\ UNCHANGED <<propertyId, gtmEvents, registeredDimensions, registeredParams,
                   notRegisteredParams, idx, nrows, parameterData, apiCalls, summary,
                   issued, failed, counted>>
    /\ UNCHANGED <<authVars, parseVars, toolVars>>

\* lines 82-95 for the parameter at position i, or lines 116-190 after the last
Proceed(i, calls) ==
    IF i <= Len(registeredParams')
    THEN /\ vpc' = "report"
         /\ idx' = i
         /\ issued' = Append(issued, ReportCall(registeredParams'[i]))
         /\ summary' = summary
    ELSE /\ idx' = i
         /\ issued' = issued
         /\ IF PushThrows(Results(gtmEvents, registeredDimensions', parameterData'))
            THEN vpc' = "thrown" /\ summary' = summary
            ELSE /\ vpc' = "done"
                 /\ summary' = Summary(gtmEvents, registeredDimensions',
                                       notRegisteredParams', parameterData', calls)

\* lines 53-95: the metadata answer holds the dimensions dims
MetadataAnswers(dims) ==
    /\ vpc = "metadata"
    /\ apiCalls' = apiCalls + 1
    /\ registeredDimensions' = RegisteredDimensions(dims)
    /\ registeredParams' = RegisteredParams(gtmEvents, RegisteredDimensions(dims))
    /\ notRegisteredParams' = NotRegisteredParams(gtmEvents, RegisteredDimensions(dims))
    /\ parameterData' = parameterData
    /\ Proceed(1, apiCalls + 1)
    /\ UNCHANGED <<propertyId, gtmEvents, nrows, failed, counted>>
    /\ UNCHANGED <<authVars, parseVars, toolVars>>

\* the report call of the current parameter is rejected, and the run stops there
ReportFails_Aborts ==
    /\ vpc = "report"
    /\ failed' = failed \cup {registeredParams[idx]}
    /\ vpc' = "thrown"
    /\ UNCHANGED <<propertyId, gtmEvents, registeredDimensions, registeredParams,
                   notRegisteredParams, idx, nrows, parameterData, apiCalls, summary,
                   issued, counted>>
    /\ UNCHANGED <<authVars, parseVars, toolVars>>

\* lines 110-112: the report call of the current parameter is rejected
ReportFails ==
    /\ vpc = "report"
    /\ failed' = failed \cup {registeredParams[idx]}
    /\ UNCHANGED <<apiCalls, registeredDimensions, registeredParams,
                   notRegisteredParams, parameterData>>
    /\ Proceed(idx + 1, apiCalls)
    /\ UNCHANGED <<propertyId, gtmEvents, nrows, counted>>
    /\ UNCHANGED <<authVars, parseVars, toolVars>>

\* lines 96-100: the report of the current parameter arrives
ReportAnswers ==
    /\ vpc = "report"
    /\ apiCalls' = apiCalls + 1
    /\ parameterData' = [parameterData EXCEPT ![registeredParams[idx]] =
                            [defined |-> TRUE, counts |-> NoCounts]]
    /\ nrows' = 0
    /\ vpc' = "rows"
    /\ UNCHANGED <<propertyId, gtmEvents, registeredDimensions, registeredParams,
                   notRegisteredParams, idx, summary, issued, failed, counted>>
    /\ UNCHANGED <<authVars, parseVars, toolVars>>

\* lines 101-109 for one row
ReportRow(row) ==
    /\ vpc = "rows"
    /\ nrows < MaxRows
    /\ nrows' = nrows + 1
    /\ parameterData' = [parameterData EXCEPT ![registeredParams[idx]].counts =
                            Accumulate(@, row)]
    /\ counted' = [counted EXCEPT ![registeredParams[idx]][row.eventName] =
                      IF row.paramValue \notin {"", "(not set)"} /\ row.count > 0
                      THEN @ + row.count ELSE @]
    /\ UNCHANGED <<vpc, propertyId, gtmEvents, registeredDimensions, registeredParams,
                   notRegisteredParams, idx, apiCalls, summary, issued, failed>>
    /\ UNCHANGED <<authVars, parseVars, toolVars>>

\* the rows are exhausted: on to the next parameter
ReportEnds ==
    /\ vpc = "rows"
    /\ UNCHANGED <<apiCalls, registeredDimensions, registeredParams,
                   notRegisteredParams, parameterData>>
    /\ Proceed(idx + 1, apiCalls)
    /\ UNCHANGED <<propertyId, gtmEvents, nrows, failed, counted>>
    /\ UNCHANGED <<authVars, parseVars, toolVars>>

(***************************************************************************)
(* parseGTMExport (src/unnamed/part_001, lines 200-264).  The names a tag  *)
(* holds are strings; an absent value and "" are both "".  What            *)
(* startsWith('{{') and endsWith('}}') answer is tabulated for the strings *)
(* of the model.  A tag's display name is the text up to its second dash   *)
(* (marker) followed by the characters after it (rest), so that the        *)
(* regular expression of line 216 and the rewriting of line 218 work on    *)
(* characters.                                                             *)
(***************************************************************************)
Reference == "{{x}}"

HalfOpen == "{{x"

startsWithBraces(s) == s \in {Reference, HalfOpen}

endsWithBraces(s) == s \in {Reference}

Whitespace == {" "}

Chars == {"E", "1", " "}

Markers == {"GA4 - Basic Event -", "ga4-ecommerce-", "GA4 - Custom -", ""}

\* the markers /GA4\s*-\s*(?:Basic Event|Ecommerce)\s*-/i accepts
MatchingMarkers == {"GA4 - Basic Event -", "ga4-ecommerce-"}

RECURSIVE Join(_)
Join(s) == IF s = <<>> THEN "" ELSE Head(s) \o Join(Tail(s))

RECURSIVE LeadingWhitespace(_)
LeadingWhitespace(s) ==
    IF s # <<>> /\ Head(s) \in Whitespace THEN 1 + LeadingWhitespace(Tail(s)) ELSE 0

NoMatch == [matched |-> FALSE, group |-> <<>>]

\* line 216: \s* takes the leading whitespace of rest but leaves (.+) one character
match(tagName) ==
    IF tagName.marker \notin MatchingMarkers \/ tagName.rest = <<>>
    THEN NoMatch
    ELSE LET rest == tagName.rest
             lead == LeadingWhitespace(rest)
         IN  [matched |-> TRUE,
              group |-> IF lead < Len(rest)
                        THEN SubSeq(rest, lead + 1, Len(rest))
                        ELSE <<rest[Len(rest)]>>]

toLowerCase(s) == [i \in DOMAIN s |-> IF s[i] = "E" THEN "e" ELSE s[i]]

\* replace(/\s+/g, '_')
RECURSIVE replaceWhitespace(_)
replaceWhitespace(s) ==
    IF s = <<>> THEN <<>>
    ELSE IF Head(s) \in Whitespace
         THEN <<"_">> \o replaceWhitespace(
                            SubSeq(s, LeadingWhitespace(s) + 1, Len(s)))
         ELSE <<Head(s)>> \o replaceWhitespace(Tail(s))

\* every whitespace character becomes an underscore of its own
resolveEventName_EachWhitespace(tag) ==
    IF startsWithBraces(tag.eventName) /\ endsWithBraces(tag.eventName)
    THEN IF match(tag.name).matched
         THEN Join([i \in DOMAIN match(tag.name).group |->
                      IF match(tag.name).group[i] \in Whitespace THEN "_"
                      ELSE toLowerCase(match(tag.name).group)[i]])
         ELSE tag.eventName
    ELSE tag.eventName

\* lines 209-220
resolveEventName(tag) ==
    IF startsWithBraces(tag.eventName) /\ endsWithBraces(tag.eventName)
    THEN IF match(tag.name).matched
         THEN Join(replaceWhitespace(toLowerCase(match(tag.name).group)))
         ELSE tag.eventName
    ELSE tag.eventName

\* the value a list entry holds under key
ValueOf(entry, key) == IF key = "name" THEN entry.name ELSE entry.parameter

\* every encoding is read under the key 'name'
paramNames_AlwaysName(list, key) ==
    LET RECURSIVE P(_)
        P(l) ==
            IF l = <<>> THEN <<>>
            ELSE (IF Head(l).name # "" /\ ~startsWithBraces(Head(l).name)
                  THEN <<Head(l).name>> ELSE <<>>) \o P(Tail(l))
    IN  P(list)

\* lines 227-232, 238-243, 249-254: the names one encoding contributes
paramNames(list, key) ==
    LET RECURSIVE P(_)
        P(l) ==
            IF l = <<>> THEN <<>>
            ELSE (IF ValueOf(Head(l), key) # ""
                     /\ ~startsWithBraces(ValueOf(Head(l), key))
                  THEN <<ValueOf(Head(l), key)>> ELSE <<>>) \o P(Tail(l))
    IN  P(list)

\* lines 222-255
eventParams(tag) ==
    paramNames(tag.eventParameters, "name")
    \o paramNames(tag.eventSettingsTable, "parameter")
    \o paramNames(tag.userProperties, "name")

\* lines 207-260: the events one tag contributes
eventsOfTag(tag) ==
    IF tag.type # "gaawe" THEN <<>>
    ELSE IF resolveEventName(tag) # "" /\ eventParams(tag) # <<>>
         THEN <<[eventName |-> resolveEventName(tag), parameters |-> eventParams(tag)]>>
         ELSE <<>>

\* lines 200-264; the tags are found under containerVersion or at the top
parseGTMExport(json) ==
    Concat([i \in DOMAIN json.tag |-> eventsOfTag(json.tag[i])])

\* the inputs
NameEntry(s) == [name |-> s, parameter |-> ""]

ParameterEntry(s) == [name |-> "", parameter |-> s]

EventParameterLists ==
    {<<>>, <<NameEntry(Reference), NameEntry("p2")>>,
     <<[name |-> "p2", parameter |-> "p1"]>>}

EventSettingsLists ==
    {<<>>, <<ParameterEntry("p1"), ParameterEntry("p2")>>,
     <<ParameterEntry(HalfOpen)>>, <<NameEntry("p1")>>}

UserPropertyLists == {<<>>, <<NameEntry("p1"), NameEntry("")>>}

NoTagName == [marker |-> "", rest |-> <<>>]

\* an event name with a display name: literal, missing, recovered reference,
\* lost reference, and a name that only starts like a reference
TagHeads ==
    {<<"e1", NoTagName>>,
     <<"", [marker |-> "GA4 - Basic Event -", rest |-> <<" ", "E", "1">>]>>,
     <<Reference, [marker |-> "GA4 - Basic Event -", rest |-> <<" ", "E", "1">>]>>,
     <<Reference, [marker |-> "", rest |-> <<"E", "1">>]>>,
     <<HalfOpen, [marker |-> "ga4-ecommerce-", rest |-> <<"E", "1">>]>>}

EventTags ==
    {[type |-> "gaawe", name |-> h[2], eventName |-> h[1], eventParameters |-> a,
      eventSettingsTable |-> b, userProperties |-> c] :
        h \in TagHeads, a \in EventParameterLists, b \in EventSettingsLists,
        c \in UserPropertyLists}

ConfigurationTag ==
    [type |-> "gaawc", name |-> NoTagName, eventName |-> "e1",
     eventParameters |-> <<NameEntry("p1")>>, eventSettingsTable |-> <<>>,
     userProperties |-> <<>>]

Tags == EventTags \cup {ConfigurationTag}

Exports ==
    [containerVersion : BOOLEAN,
     tag : UNION {[1..n -> Tags] : n \in 0..MaxTags}]

\* one event tag under every display name and every kind of event name
NamedTags ==
    {[type |-> "gaawe", name |-> [marker |-> m, rest |-> r], eventName |-> e,
      eventParameters |-> <<NameEntry("p1")>>, eventSettingsTable |-> <<>>,
      userProperties |-> <<>>] :
        m \in Markers, r \in UNION {[1..n -> Chars] : n \in 0..MaxNameLen},
        e \in {"e1", "", Reference, HalfOpen}}

NamedExports == {[containerVersion |-> FALSE, tag |-> <<t>>] : t \in NamedTags}

NoExport == [containerVersion |-> FALSE, tag |-> <<>>]

NotExtracted == [returned |-> FALSE, events |-> <<>>]

InitParse ==
    /\ gtmExportJson = NoExport
    /\ extracted = NotExtracted

ParseExport(json) ==
    /\ ~extracted.returned
    /\ gtmExportJson' = json
    /\ extracted' = [returned |-> TRUE, events |-> parseGTMExport(json)]
    /\ UNCHANGED <<authVars, valVars, toolVars>>

(***************************************************************************)
(* handleToolCall (src/unnamed/part_000, lines 250-306) and the handlers   *)
(* of src/tools/admin.ts, src/tools/reporting.ts and part_001 (323-350).   *)
(* A call is cut at its awaits: the client getter, then the upstream call   *)
(* (for ga4_validate_gtm_params, the run of validateGTMParameters).  The   *)
(* field cause records which failure the catch block of the handler saw.   *)
(***************************************************************************)
AdminTools == {"ga4_account_summaries", "ga4_property_details", "ga4_google_ads_links"}

DataTools == {"ga4_run_report", "ga4_run_realtime_report", "ga4_custom_dimensions_metrics"}

AnnotationsTool == "ga4_property_annotations"

ValidationTool == "ga4_validate_gtm_params"

ToolNames == AdminTools \cup DataTools \cup {AnnotationsTool, ValidationTool}

\* the names a caller may send: the registered ones and one that is not
CalledNames == ToolNames \cup {"ga4_unknown"}

NoResponse == [returned |-> FALSE, isError |-> FALSE]

createSuccessResponse == [returned |-> TRUE, isError |-> FALSE]

createErrorResponse == [returned |-> TRUE, isError |-> TRUE]

\* an argument that may be missing from the record
Absent == [given |-> FALSE, value |-> <<>>]

Given(v) == [given |-> TRUE, value |-> v]

ToolPropertyIds ==
    {String(<<"4", "2">>), String(<<"x">>), Undefined, Object(TRUE), Object(FALSE)}

ToolEvents ==
    {Absent, Given(<<>>), Given(<<[eventName |-> "e1", parameters |-> <<"p1">>]>>)}

ToolExports ==
    {Absent, Given(NoExport),
     Given([containerVersion |-> TRUE,
            tag |-> <<[type |-> "gaawe", name |-> NoTagName, eventName |-> "e1",
                       eventParameters |-> <<NameEntry("p1")>>,
                       eventSettingsTable |-> <<>>, userProperties |-> <<>>]>>])}

ToolArgs == [propertyId : ToolPropertyIds, gtmEvents : ToolEvents,
             gtmExportJson : ToolExports]

NoArgs == [propertyId |-> Undefined, gtmEvents |-> Absent, gtmExportJson |-> Absent]

IdleTool ==
    [pc |-> "idle", name |-> "", args |-> NoArgs, response |-> NoResponse, cause |-> ""]

InitTool == tool = IdleTool

\* the handler returns response
Returns(call, response, cause) ==
    [call EXCEPT !.pc = "returned", !.response = response, !.cause = cause]

\* the catch block of a handler: all but two of them put the property id into the
\* message with a template literal, which throws when the id cannot be converted
Caught(call, cause) ==
    IF call.name \in {"ga4_account_summaries", ValidationTool} \/ call.args.propertyId.printable
    THEN Returns(call, createErrorResponse, cause)
    ELSE [call EXCEPT !.pc = "threw", !.cause = cause]

\* the tool asks for its client: the handler is at its first await
AsksClient(call, k) ==
    /\ Request(1, k)
    /\ tool' = [call EXCEPT !.pc = "client"]

\* handleToolCall up to the first await of the handler it dispatches to
ToolCall(name, args) ==
    LET call == [IdleTool EXCEPT !.name = name, !.args = args] IN
    /\ tool.pc = "idle"
    /\ CASE name \in AdminTools ->
              AsksClient(call, "admin") /\ UNCHANGED <<valVars, parseVars>>
         [] name \in DataTools ->
              AsksClient(call, "data") /\ UNCHANGED <<valVars, parseVars>>
         [] name = AnnotationsTool ->
              /\ tool' = IF constructPropertyResourceName(args.propertyId) = ""
                         THEN Caught(call, "property_id")
                         ELSE Returns(call, createSuccessResponse, "")
              /\ UNCHANGED <<authVars, valVars, parseVars>>
         [] name = ValidationTool ->
              IF args.gtmExportJson.given
              THEN /\ gtmExportJson' = args.gtmExportJson.value
                   /\ extracted' = [returned |-> TRUE,
                                    events |-> parseGTMExport(args.gtmExportJson.value)]
                   /\ IF parseGTMExport(args.gtmExportJson.value) = <<>>
                      THEN /\ tool' = Returns(call, createErrorResponse, "arguments")
                           /\ UNCHANGED <<authVars, valVars>>
                      ELSE /\ AsksClient(call, "data")
                           /\ UNCHANGED valVars
              ELSE IF args.gtmEvents.given
              THEN AsksClient(call, "data") /\ UNCHANGED <<valVars, parseVars>>
              ELSE /\ tool' = Returns(call, createErrorResponse, "arguments")
                   /\ UNCHANGED <<authVars, valVars, parseVars>>
         [] OTHER ->
              /\ tool' = Returns(call, createErrorResponse, "unknown_tool")
              /\ UNCHANGED <<authVars, valVars, parseVars>>

\* the events handleGTMValidation passes on (lines 329-335)
EventsOf(call) ==
    IF call.args.gtmExportJson.given THEN extracted.events ELSE call.args.gtmEvents.value

\* the client getter returned: the handler checks the property id and makes its
\* upstream call
ClientObtained ==
    /\ tool.pc = "client"
    /\ req[1].pc = "done"
    /\ IF tool.name = ValidationTool
       THEN /\ Validation(tool.args.propertyId, EventsOf(tool))
            /\ tool' = IF constructPropertyResourceName(tool.args.propertyId) = ""
                       THEN Caught(tool, "property_id")
                       ELSE [tool EXCEPT !.pc = "validating"]
       ELSE /\ tool' = IF /\ tool.name # "ga4_account_summaries"
                          /\ constructPropertyResourceName(tool.args.propertyId) = ""
                       THEN Caught(tool, "property_id")
                       ELSE [tool EXCEPT !.pc = "upstream"]
            /\ UNCHANGED valVars
    /\ UNCHANGED <<authVars, parseVars>>

\* the client getter threw: the resolution or the refresh failed
ClientFailed ==
    /\ tool.pc = "client"
    /\ req[1].pc = "failed"
    /\ tool' = Caught(tool, req[1].error)
    /\ UNCHANGED <<authVars, valVars, parseVars>>

UpstreamAnswers ==
    /\ tool.pc = "upstream"
    /\ tool' = Returns(tool, createSuccessResponse, "")
    /\ UNCHANGED <<authVars, valVars, parseVars>>

UpstreamFails ==
    /\ tool.pc = "upstream"
    /\ tool' = Caught(tool, "upstream")
    /\ UNCHANGED <<authVars, valVars, parseVars>>

\* validateGTMParameters returned its summary (part_001, lines 345-346)
ValidationReturns ==
    /\ tool.pc = "validating"
    /\ vpc = "done"
    /\ tool' = Returns(tool, createSuccessResponse, "")
    /\ UNCHANGED <<authVars, valVars, parseVars>>

\* validateGTMParameters threw on its metadata call (part_001, lines 347-349)
ValidationThrows ==
    /\ tool.pc = "validating"
    /\ vpc = "thrown"
    /\ tool' = Caught(tool, "upstream")
    /\ UNCHANGED <<authVars, valVars, parseVars>>

(***************************************************************************)
(* Initial states.                                                         *)
(***************************************************************************)
NoEnv ==
    [GA4_ACCESS_TOKEN |-> "", GA4_REFRESH_TOKEN |-> "", GA4_CLIENT_ID |-> "",
     GA4_CLIENT_SECRET |-> "", GA4_SERVICE_ACCOUNT_JSON |-> NoFile,
     GOOGLE_APPLICATION_CREDENTIALS |-> ""]

OAuthEnvs ==
    {NoEnv,
     [NoEnv EXCEPT !.GA4_ACCESS_TOKEN = "env"],
     [NoEnv EXCEPT !.GA4_ACCESS_TOKEN = "env", !.GA4_REFRESH_TOKEN = "env",
                   !.GA4_CLIENT_ID = "env", !.GA4_CLIENT_SECRET = "env"]}

InitCache ==
    /\ now = StartTime
    /\ stamp = 0
    /\ cachedAdminClient = NullClient
    /\ cachedDataClient = NullClient
    /\ cachedAuthMode = "null"
    /\ cachedEmail = ""
    /\ cachedTokenMtime = -1
    /\ cachedTokenPath = ""
    /\ req = [r \in Reqs |-> IdleReq]
    /\ settled = {}

Files(shared, gtm, ga4, gac, adc, config, cred) ==
    [p \in Paths |->
        CASE p = SHARED_TOKEN_PATH -> shared
          [] p = gtmTokenPath -> gtm
          [] p = ga4TokenPath -> ga4
          [] p = gacPath -> gac
          [] p = adcPath -> adc
          [] p = configPath -> config
          [] OTHER -> cred]

\* the sources that do not change while the server runs: the environment variables
\* and the ADC and service-account files
StaticSources ==
    {<<NoEnv, NoFile, NoFile>>, <<NoEnv, Adc("adc"), NoFile>>, <<NoEnv, NoFile, Sa("sa")>>}
    \cup {<<e, NoFile, NoFile>> : e \in OAuthEnvs}

Init ==
    /\ \E s \in StaticSources, ga4 \in {NoFile, Full("ga4", 2 * RefreshMarginMs)} :
          /\ env = s[1]
          /\ fs = Files(NoFile, NoFile, ga4, NoFile, s[2], s[3], NoFile)
    /\ InitCache
    /\ InitVal
    /\ InitParse
    /\ InitTool

Next ==
    \/ \E r \in Reqs, k \in Kinds : Start(r, k)
    \/ \E r \in Reqs : RefreshSucceeds(r)
    \/ \E r \in Reqs : RefreshFails(r)
    \/ \E r \in Reqs : WriteFails(r)
    \/ \E r \in Reqs : AuthorizeSucceeds(r)
    \/ \E r \in Reqs : AuthorizeFails(r)
    \/ \E r \in Reqs : Finish(r)
    \/ \E path \in RewrittenPaths : \E content \in TokenFileContents(path) :
          ExternalWrite(path, content)
    \/ \E path \in RewrittenPaths : ExternalDelete(path)
    \/ Tick

Spec == Init /\ [][Next]_vars

(***************************************************************************)
(* The resolver alone, over every combination of credential sources: the   *)
(* sources are fixed at the start and only client requests happen.         *)
(***************************************************************************)
ResolveEnvs ==
    {[e EXCEPT !.GA4_SERVICE_ACCOUNT_JSON = j, !.GOOGLE_APPLICATION_CREDENTIALS = g] :
        e \in OAuthEnvs \cup {[NoEnv EXCEPT !.GA4_ACCESS_TOKEN = "env",
                                            !.GA4_REFRESH_TOKEN = "env"]},
        j \in {NoFile, Sa("sajson")},
        g \in {"", gacPath}}

InitResolve ==
    /\ env \in ResolveEnvs
    /\ \E shared \in {NoFile, Bad, Bare("shared")}, gtm \in {NoFile, Bare("gtm")},
          ga4 \in {NoFile, Bad, Bare("ga4"), Partial("ga4"), Full("ga4", 0)},
          gac \in {NoFile, Adc("gac"), Sa("gac")},
          adc \in {NoFile, Adc("adc")}, config \in {NoFile, Sa("config")},
          cred \in {NoFile, Sa("cred")} :
          /\ env.GOOGLE_APPLICATION_CREDENTIALS = "" => gac = NoFile
          /\ fs = Files(shared, gtm, ga4, gac, adc, config, cred)
    /\ InitCache
    /\ InitVal
    /\ InitParse
    /\ InitTool

NextResolve ==
    \/ \E r \in Reqs, k \in Kinds : Start(r, k)
    \/ \E r \in Reqs : RefreshSucceeds(r)
    \/ \E r \in Reqs : RefreshFails(r)
    \/ \E r \in Reqs : AuthorizeSucceeds(r)
    \/ \E r \in Reqs : AuthorizeFails(r)
    \/ \E r \in Reqs : Finish(r)

SpecResolve == InitResolve /\ [][NextResolve]_vars

(***************************************************************************)
(* Two tool calls at once: index.ts 31-38 awaits the handler of a request  *)
(* and the transport delivers the next request meanwhile, so a second      *)
(* client request can start while the first is suspended at an await.      *)
(***************************************************************************)
Slots == {1, 2}

FullOAuthEnv ==
    [NoEnv EXCEPT !.GA4_ACCESS_TOKEN = "env", !.GA4_REFRESH_TOKEN = "env",
                  !.GA4_CLIENT_ID = "env", !.GA4_CLIENT_SECRET = "env"]

InitOverlap ==
    /\ env \in {NoEnv, FullOAuthEnv}
    /\ \E ga4 \in {Full("ga4", 0), Full("ga4", 2 * RefreshMarginMs),
                    Annotated("ga4", 2 * RefreshMarginMs)} :
          fs = Files(NoFile, NoFile, ga4, NoFile, NoFile, NoFile, NoFile)
    /\ now = StartTime
    /\ stamp = 0
    /\ cachedAdminClient = NullClient
    /\ cachedDataClient = NullClient
    /\ cachedAuthMode = "null"
    /\ cachedEmail = ""
    /\ cachedTokenMtime = -1
    /\ cachedTokenPath = ""
    /\ req = [r \in Slots |-> IdleReq]
    /\ settled = {}
    /\ InitVal
    /\ InitParse
    /\ InitTool

NextOverlap ==
    \/ \E r \in Slots, k \in Kinds : Start(r, k)
    \/ \E r \in Slots : RefreshSucceeds(r)
    \/ \E r \in Slots : RefreshFails(r)
    \/ \E r \in Slots : WriteFails(r)
    \/ \E r \in Slots : Finish(r)
    \/ Tick

SpecOverlap == InitOverlap /\ [][NextOverlap]_vars

(***************************************************************************)
(* The validation engine alone: no credential source, no client request.   *)
(***************************************************************************)
InitValidate ==
    /\ env = NoEnv
    /\ fs = Files(NoFile, NoFile, NoFile, NoFile, NoFile, NoFile, NoFile)
    /\ InitCache
    /\ InitVal
    /\ InitParse
    /\ InitTool

NextValidate ==
    \/ \E id \in PropertyIds, events \in GtmEventInputs : Validate(id, events)
    \/ MetadataFails
    \/ \E dims \in SUBSET Dimension : MetadataAnswers(dims)
    \/ ReportFails
    \/ ReportAnswers
    \/ \E row \in Row : ReportRow(row)
    \/ ReportEnds

SpecVal == InitValidate /\ [][NextValidate]_vars

(***************************************************************************)
(* parseGTMExport alone, over exports of a few tags, and over one tag      *)
(* under every display name.                                                *)
(***************************************************************************)
InitExtract ==
    /\ env = NoEnv
    /\ fs = Files(NoFile, NoFile, NoFile, NoFile, NoFile, NoFile, NoFile)
    /\ InitCache
    /\ InitVal
    /\ InitParse
    /\ InitTool

NextParse ==
    /\ ~extracted.returned
    /\ \E json \in Exports : ParseExport(json)

SpecParse == InitExtract /\ [][NextParse]_vars

(***************************************************************************)
(* The validation engine on event names that a JavaScript object inherits. *)
(***************************************************************************)
InheritedEvent(parameters) == [eventName |-> "constructor", parameters |-> parameters]

InheritedInputs ==
    {<<InheritedEvent(<<"p1">>)>>,
     <<[eventName |-> "e1", parameters |-> <<"p1">>], InheritedEvent(<<"p1", "p2">>)>>}

AllRows == [eventName : AllEventNames, paramValue : {"v", "", "(not set)"}, count : {0, 1}]

NextInherited ==
    \/ \E events \in InheritedInputs : Validate(String(<<"4", "2">>), events)
    \/ MetadataFails
    \/ \E dims \in SUBSET Dimension : MetadataAnswers(dims)
    \/ ReportFails
    \/ ReportAnswers
    \/ \E row \in AllRows : ReportRow(row)
    \/ ReportEnds

SpecInherited == InitValidate /\ [][NextInherited]_vars

(***************************************************************************)
(* One tool call, from the dispatch to the response.                       *)
(***************************************************************************)
NextTool ==
    \/ /\ tool.pc = "idle"
       /\ \E name \in CalledNames, args \in ToolArgs : ToolCall(name, args)
    \/ RefreshSucceeds(1)
    \/ RefreshFails(1)
    \/ AuthorizeSucceeds(1)
    \/ AuthorizeFails(1)
    \/ Finish(1)
    \/ ClientObtained
    \/ ClientFailed
    \/ UpstreamAnswers
    \/ UpstreamFails
    \/ MetadataFails
    \/ \E dims \in SUBSET Dimension : MetadataAnswers(dims)
    \/ ReportFails
    \/ ReportAnswers
    \/ \E row \in Row : ReportRow(row)
    \/ ReportEnds
    \/ ValidationReturns
    \/ ValidationThrows

SpecTool == Init /\ [][NextTool]_vars

(***************************************************************************)
(* validateGTMParameters on an empty event list, over every property id.   *)
(***************************************************************************)
AllPropertyIds ==
    {String(text) : text \in PropertyIdTexts}
    \cup {Number(parseInt(text)) : text \in {t \in PropertyIdTexts : IsDigits(t)}}
    \cup {Undefined}

NextPropertyId ==
    \/ \E id \in AllPropertyIds : Validate(id, <<>>)
    \/ MetadataFails
    \/ \E dims \in SUBSET Dimension : MetadataAnswers(dims)

SpecPropertyId == InitExtract /\ [][NextPropertyId]_vars

NextTagName ==
    /\ ~extracted.returned
    /\ \E json \in NamedExports : ParseExport(json)

SpecTagName == InitExtract /\ [][NextTagName]_vars

(***************************************************************************)
(* C1.  Priority order of getAuthClient.                                   *)
(***************************************************************************)
SourceOrder ==
    <<"oauth_env", "oauth_file", "adc", "service_account", "token_env", "token_file">>

Parsed(doc) == doc.exists /\ doc.json

\* the places a source may be read from
Origins(s) ==
    CASE s = "oauth_env" -> {"env"}
      [] s = "oauth_file" -> {"ga4"}
      [] s = "adc" -> {"gac", "adc"}
      [] s = "service_account" -> {"sajson", "gac", "config", "cred"}
      [] s = "token_env" -> {"env"}
      [] s = "token_file" -> {"shared", "gtm", "ga4"}
      [] OTHER -> {}

\* source s holds a usable payload, stated from the documented shapes of the sources
Available(s) ==
    CASE s = "oauth_env" ->
           /\ env.GA4_ACCESS_TOKEN # "" /\ env.GA4_REFRESH_TOKEN # ""
           /\ env.GA4_CLIENT_ID # "" /\ env.GA4_CLIENT_SECRET # ""
      [] s = "oauth_file" ->
           /\ Parsed(fs[ga4TokenPath])
           /\ fs[ga4TokenPath].refresh_token # "" /\ fs[ga4TokenPath].client_id # ""
           /\ fs[ga4TokenPath].client_secret # ""
      [] s = "adc" ->
           \E p \in {adcPath} \cup (IF env.GOOGLE_APPLICATION_CREDENTIALS # ""
                                    THEN {gacPath} ELSE {}) :
              /\ Parsed(fs[p]) /\ fs[p].type = "authorized_user"
              /\ fs[p].refresh_token # "" /\ fs[p].client_id # "" /\ fs[p].client_secret # ""
      [] s = "service_account" ->
           \E d \in {env.GA4_SERVICE_ACCOUNT_JSON, fs[configPath], fs[credPath]}
                    \cup (IF env.GOOGLE_APPLICATION_CREDENTIALS # ""
                          THEN {fs[gacPath]} ELSE {}) :
              Parsed(d) /\ d.client_email # "" /\ d.private_key # ""
      [] s = "token_env" -> env.GA4_ACCESS_TOKEN # ""
      [] s = "token_file" ->
           \E p \in TokenPaths : Parsed(fs[p]) /\ fs[p].access_token # ""
      [] OTHER -> FALSE

FirstAvailable ==
    IF \E i \in 1..Len(SourceOrder) : Available(SourceOrder[i])
    THEN SourceOrder[CHOOSE i \in 1..Len(SourceOrder) :
                        /\ Available(SourceOrder[i])
                        /\ \A j \in 1..(i - 1) : ~Available(SourceOrder[j])]
    ELSE "none"

CredentialOrigins(client) ==
    {client.access_token, client.refresh_token, client.client_id,
     client.client_secret, client.email} \ {""}

\* C1: a resolution selects the first available source of the order oauth_env,
\* oauth_file, adc, service_account, token_env, token_file, and every credential
\* field of the client it builds was read from one single place of that source.
C1_PriorityOrder ==
    [][\A r \in Reqs, k \in Kinds :
          (Start(r, k) /\ req'[r].resolved) =>
              /\ req'[r].source = FirstAvailable
              /\ req'[r].source # "none" =>
                    /\ Cardinality(CredentialOrigins(req'[r].client)) = 1
                    /\ CredentialOrigins(req'[r].client) \subseteq Origins(req'[r].source)]_vars

\* a service account was selected while both bare access tokens were there too
C1_Witness ==
    \E r \in Reqs :
        /\ req[r].resolved /\ req[r].pc = "done"
        /\ req[r].source = "service_account"
        /\ ~Available("adc")
        /\ Available("token_env") /\ Available("token_file")

(***************************************************************************)
(* C2.  Refresh policy of createOAuthClient.                               *)
(***************************************************************************)
OAuthReturned(r) ==
    req[r].pc = "done" /\ req[r].resolved /\ req[r].create = "oauth"

\* C2: a full-OAuth credential resolved with an expiry earlier than 60 s after the
\* time of the resolution has made exactly one refresh call and one write of the
\* token file when its client is returned; one with a later expiry has made none.
C2_RefreshOnceBeforeUse ==
    \A r \in Reqs :
        OAuthReturned(r) =>
            LET expiry == req[r].tokens.expiry_date IN
            /\ (expiry # 0 /\ expiry < req[r].at + 60000) =>
                   req[r].refreshes = 1 /\ req[r].writes = 1
            /\ expiry >= req[r].at + 60000 =>
                   req[r].refreshes = 0 /\ req[r].writes = 0

\* a client was returned after a refresh and a write of ~/.ga4-mcp/tokens.json
C2_Witness ==
    \E r \in Reqs :
        /\ OAuthReturned(r)
        /\ req[r].tokens.expiry_date # 0
        /\ req[r].tokens.expiry_date < req[r].at + 60000
        /\ req[r].refreshes = 1 /\ req[r].writes = 1
        /\ fs[ga4TokenPath].access_token = "refreshed"

(***************************************************************************)
(* C3.  A failed refresh grant ends the resolution.                        *)
(***************************************************************************)
CacheVars == <<cachedAdminClient, cachedDataClient, cachedAuthMode, cachedEmail>>

\* C3: when the refresh grant of a full-OAuth or ADC credential fails, the request
\* ends with the refresh error that asks for a new authentication, its source stays
\* the one selected, and the resolution has cached no client and no auth mode: the
\* cache is as checkAndInvalidateCache left it when the request started.
C3_RefreshFailureIsTerminal ==
    [][\A r \in Reqs :
          /\ RefreshFails(r) =>
                /\ req'[r].pc = "failed"
                /\ req'[r].error = (IF req[r].source = "adc"
                                    THEN ADCRefreshError ELSE OAuthRefreshError)
                /\ req'[r].source = req[r].source
                /\ req[r].source \in {"oauth_env", "oauth_file", "adc"}
                /\ UNCHANGED CacheVars
                /\ (IF req[r].kind = "admin" THEN cachedAdminClient'
                                             ELSE cachedDataClient') = NullClient
          /\ \A k \in Kinds :
                (Start(r, k) /\ req'[r].pc = "refreshing") =>
                    /\ cachedAuthMode' = checkAndInvalidateCache.mode
                    /\ cachedEmail' = checkAndInvalidateCache.email
                    /\ cachedAdminClient' = checkAndInvalidateCache.admin
                    /\ cachedDataClient' = checkAndInvalidateCache.data]_vars

\* the refresh of the token-file credential failed while a service account was there
C3_Witness ==
    \E r \in Reqs :
        /\ req[r].pc = "failed" /\ req[r].error = OAuthRefreshError
        /\ req[r].source = "oauth_file"
        /\ Available("service_account")
        /\ cachedAuthMode = "null"
        /\ cachedAdminClient = NullClient /\ cachedDataClient = NullClient

(***************************************************************************)
(* C4.  A changed token file forces a rebuild.                             *)
(***************************************************************************)
\* the clients a resolution of the payload `tokens` can hand out
BuiltFrom(create, tokens) ==
    CASE create = "oauth" -> {OAuthClient(tokens)}
                             \cup {[OAuthClient(tokens) EXCEPT !.access_token = "refreshed",
                                                              !.expiry_date = t + TokenLifetimeMs]
                                   : t \in Times}
      [] create = "adc" -> {[ADCClient(tokens) EXCEPT !.access_token = "refreshed",
                                                      !.expiry_date = t + TokenLifetimeMs]
                            : t \in Times}
      [] create = "service_account" -> {ServiceAccountClient(tokens)}
      [] create = "access-token" -> {AccessTokenOnlyClient(tokens)}
      [] OTHER -> {}

\* C4: a request that finds a client of its kind cached and the fingerprinted token
\* file with another mtime runs the credential resolution again and does not return
\* the cached client; the client it returns is built from the credentials that
\* resolution read, and becomes the cached one.
C4_ChangedFileForcesRebuild ==
    \A r \in Reqs :
        req[r].changed =>
            /\ req[r].resolved /\ ~req[r].fromCache
            /\ req[r].pc = "done" =>
                  /\ req[r].client \in BuiltFrom(req[r].create, req[r].tokens)
                  /\ (IF req[r].kind = "admin" THEN cachedAdminClient
                                               ELSE cachedDataClient) = req[r].client

\* the shared token file was rewritten and the next request returned a client built
\* from the new file
C4_Witness ==
    \E r \in Reqs :
        /\ req[r].changed /\ req[r].pc = "done"
        /\ req[r].source = "token_file"
        /\ req[r].client.access_token = "shared"
        /\ cachedTokenPath = SHARED_TOKEN_PATH /\ cachedTokenMtime = fs[SHARED_TOKEN_PATH].mtime
        /\ cachedTokenMtime > 0

(***************************************************************************)
(* C5.  Idempotence of the client getters.                                 *)
(***************************************************************************)
\* C5: once a client of kind k has been handed out, and no other program has changed
\* a token file since, a request for kind k returns the cached client and runs no
\* credential resolution, refresh call or file write.
C5_IdempotentWithinWindow ==
    [][\A r \in Reqs, k \in Kinds :
          (Start(r, k) /\ k \in settled) =>
              /\ req'[r].pc = "done" /\ req'[r].fromCache /\ ~req'[r].resolved
              /\ req'[r].refreshes = 0 /\ req'[r].writes = 0
              /\ req'[r].client = (IF k = "admin" THEN cachedAdminClient
                                                  ELSE cachedDataClient)
              /\ req'[r].client # NullClient]_vars

(***************************************************************************)
(* Properties of the validation engine.                                    *)
(***************************************************************************)
\* the distinct parameter names of the input events
InputParams == UNION {Range(gtmEvents[i].parameters) : i \in DOMAIN gtmEvents}

\* those of them that are registered custom dimensions
RegisteredInputParams == InputParams \cap registeredDimensions

CallsOf(call) == {i \in DOMAIN issued : issued[i] = call}

C7_ApiCallsIsCallsIssued ==
    vpc = "done" =>
        /\ summary.apiCalls = Len(issued)
        /\ summary.apiCalls = 1 + Cardinality(RegisteredInputParams)

\* C8: a pair whose parameter is registered and for which the report held no
\* counted row of that event is not_collected with count 0.
C8_RegisteredWithoutCountedRow ==
    vpc = "done" =>
        \A i \in DOMAIN summary.details :
            LET d == summary.details[i]
            IN  (d.parameter \in registeredDimensions
                 /\ counted[d.parameter][d.eventName] = 0)
                => (d.status = "not_collected" /\ d.count = 0)

\* the report of a registered parameter arrived with two rows, none of them counted
\* for the event of the pair
C8_Witness ==
    /\ vpc = "done"
    /\ \E i \in DOMAIN summary.details :
          LET d == summary.details[i]
          IN  /\ d.parameter \in registeredDimensions
              /\ parameterData[d.parameter].defined
              /\ d.parameter \notin failed
              /\ counted[d.parameter][d.eventName] = 0
              /\ d.status = "not_collected"
              /\ \E e \in EventNames : counted[d.parameter][e] > 0

\* C9: no report call is ever issued for a parameter outside the registered set,
\* and every pair of such a parameter is not_registered, whatever the reports of
\* the run held.
C9_UnregisteredIsNotQueried ==
    /\ \A i \in DOMAIN issued :
          issued[i].method = "runReport" => issued[i].param \in registeredDimensions
    /\ vpc = "done" =>
          \A i \in DOMAIN summary.details :
              LET d == summary.details[i]
              IN  d.parameter \notin registeredDimensions
                  => (d.status = "not_registered" /\ d.count = -1)

\* one parameter of the input is unregistered while the report of another one held
\* counted rows
C9_Witness ==
    /\ vpc = "done"
    /\ \E i \in DOMAIN summary.details :
          /\ summary.details[i].parameter \notin registeredDimensions
          /\ summary.details[i].status = "not_registered"
    /\ \E p \in RegisteredInputParams, e \in EventNames : counted[p][e] > 0
    /\ Len(issued) = 2

IsReference(s) == startsWithBraces(s) /\ endsWithBraces(s)

\* the names of the entries of the three encodings of a tag, in order, each read
\* under the key of its encoding; "" where the entry has no such key
EntryNames(tag) ==
    [i \in DOMAIN tag.eventParameters |-> tag.eventParameters[i].name]
    \o [i \in DOMAIN tag.eventSettingsTable |-> tag.eventSettingsTable[i].parameter]
    \o [i \in DOMAIN tag.userProperties |-> tag.userProperties[i].name]

\* those names with the {{...}} references left out
LiteralNames(tag) == SelectSeq(EntryNames(tag), LAMBDA s : s # "" /\ ~IsReference(s))

\* those names with every name that begins with {{ left out
PlainNames(tag) == SelectSeq(EntryNames(tag), LAMBDA s : s # "" /\ ~startsWithBraces(s))

LiteralEventTag(tag) ==
    tag.type = "gaawe" /\ tag.eventName # "" /\ ~IsReference(tag.eventName)

\* C11 as stated: an export of GA4-event tags with literal event names, each with
\* at least one literal parameter name, yields one event per tag, named as the
\* tag says, whose parameters are the literal names of the three encodings in
\* order, only the {{...}} references being left out.
C11_LiteralNamesInOrder ==
    (/\ extracted.returned
     /\ \A i \in DOMAIN gtmExportJson.tag :
           /\ LiteralEventTag(gtmExportJson.tag[i])
           /\ LiteralNames(gtmExportJson.tag[i]) # <<>>)
    => extracted.events =
          [i \in DOMAIN gtmExportJson.tag |->
              [eventName |-> gtmExportJson.tag[i].eventName,
               parameters |-> LiteralNames(gtmExportJson.tag[i])]]

\* C11, amended: the names left out are the empty ones and every name that begins
\* with {{, closed by }} or not; a tag with a literal event name yields one event
\* with the remaining names in order when at least one remains, and no event
\* otherwise.
C11_PlainNamesInOrder ==
    (/\ extracted.returned
     /\ \A i \in DOMAIN gtmExportJson.tag : LiteralEventTag(gtmExportJson.tag[i]))
    => extracted.events =
          Concat([i \in DOMAIN gtmExportJson.tag |->
                    IF PlainNames(gtmExportJson.tag[i]) = <<>> THEN <<>>
                    ELSE <<[eventName |-> gtmExportJson.tag[i].eventName,
                            parameters |-> PlainNames(gtmExportJson.tag[i])]>>])

\* a tag named e1 whose three encodings hold a reference, a name that only begins
\* with {{, an empty name and two literal names
C11_Witness ==
    /\ extracted.returned
    /\ Len(gtmExportJson.tag) = 1
    /\ gtmExportJson.tag[1].eventName = "e1"
    /\ gtmExportJson.tag[1].eventParameters = <<NameEntry(Reference), NameEntry("p2")>>
    /\ gtmExportJson.tag[1].eventSettingsTable = <<ParameterEntry(HalfOpen)>>
    /\ gtmExportJson.tag[1].userProperties = <<NameEntry("p1"), NameEntry("")>>
    /\ extracted.events = <<[eventName |-> "e1", parameters |-> <<"p2", "p1">>]>>

\* the marker of the display name is followed by k blanks and then by the name;
\* a display name that is all blanks after the marker has its last blank as name
DisplayedName(rest) ==
    LET k == CHOOSE n \in 0..(Len(rest) - 1) :
                 /\ \A i \in 1..n : rest[i] \in Whitespace
                 /\ n = Len(rest) - 1 \/ rest[n + 1] \notin Whitespace
    IN  SubSeq(rest, k + 1, Len(rest))

\* lower case, and one underscore for each run of whitespace
RECURSIVE Underscored(_, _)
Underscored(name, i) ==
    IF i > Len(name) THEN ""
    ELSE (IF name[i] \in Whitespace
          THEN (IF i > 1 /\ name[i - 1] \in Whitespace THEN "" ELSE "_")
          ELSE (IF name[i] = "E" THEN "e" ELSE name[i]))
         \o Underscored(name, i + 1)

\* C12: a tag whose event name is a {{...}} reference and whose display name is a
\* matching marker followed by a name yields the event named by that name in
\* lower case with each run of whitespace turned into one underscore.
C12_NameFromDisplayName ==
    (/\ extracted.returned
     /\ IsReference(gtmExportJson.tag[1].eventName)
     /\ gtmExportJson.tag[1].name.marker \in MatchingMarkers
     /\ gtmExportJson.tag[1].name.rest # <<>>)
    => extracted.events =
          <<[eventName |-> Underscored(DisplayedName(gtmExportJson.tag[1].name.rest), 1),
             parameters |-> <<"p1">>]>>

\* 'GA4 - Basic Event - E  1' gives e_1
C12_Witness ==
    /\ extracted.returned
    /\ gtmExportJson.tag[1].eventName = Reference
    /\ gtmExportJson.tag[1].name =
          [marker |-> "GA4 - Basic Event -", rest |-> <<" ", "E", " ", " ">>]
          \/ gtmExportJson.tag[1].name =
                [marker |-> "GA4 - Basic Event -", rest |-> <<"E", " ", " ", "1">>]
    /\ extracted.events = <<[eventName |-> "e_1", parameters |-> <<"p1">>]>>

\* C13 as stated: every emitted event has a non-empty name and at least one
\* parameter, and a reference that the display name does not resolve names no
\* emitted event.
C13_NoEventWithoutName ==
    extracted.returned =>
        \A j \in DOMAIN extracted.events :
            /\ extracted.events[j].eventName # ""
            /\ extracted.events[j].parameters # <<>>
            /\ ~IsReference(extracted.events[j].eventName)

(***************************************************************************)
(* Properties of constructPropertyResourceName.                            *)
(***************************************************************************)
\* the text without the blanks around it
Stripped(text) ==
    LET inked == {i \in DOMAIN text : text[i] # " "}
    IN  IF inked = {} THEN <<>>
        ELSE SubSeq(text, CHOOSE i \in inked : \A j \in inked : i <= j,
                          CHOOSE i \in inked : \A j \in inked : j <= i)

\* the identifier of the property whose number the digits spell
Identifier(digits) == "properties/" \o ToString(parseInt(digits))

Prefixed(text) == text # <<>> /\ Head(text) = "properties/"

\* the run was stopped by the validation error before any upstream call
Rejected == vpc = "thrown" /\ issued = <<>>

\* C14 as stated: a digit string d, the number d and 'properties/' followed by d
\* all give the identifier of d, and every string that is neither all digits nor
\* prefixed with 'properties/' is rejected with the validation error.
C14_SameIdentifierOrError ==
    vpc # "idle" =>
        /\ propertyId.type = "number"
           => constructPropertyResourceName(propertyId)
                 = "properties/" \o ToString(propertyId.number)
        /\ (propertyId.type = "string" /\ IsDigits(propertyId.text))
           => constructPropertyResourceName(propertyId) = Identifier(propertyId.text)
        /\ (propertyId.type = "string" /\ Prefixed(propertyId.text)
            /\ IsDigits(Tail(propertyId.text)))
           => constructPropertyResourceName(propertyId)
                 = Identifier(Tail(propertyId.text))
        /\ (propertyId.type = "string" /\ ~IsDigits(propertyId.text)
            /\ ~Prefixed(propertyId.text))
           => (constructPropertyResourceName(propertyId) = "" /\ Rejected)

\* C14, amended: the three forms are recognised after the blanks around a string
\* are dropped, and a string is rejected when what is left is neither all digits
\* nor prefixed with 'properties/'; an accepted id is not rejected.
C14_SameIdentifierAfterTrim ==
    vpc # "idle" =>
        /\ propertyId.type = "number"
           => constructPropertyResourceName(propertyId)
                 = "properties/" \o ToString(propertyId.number)
        /\ (propertyId.type = "string" /\ IsDigits(Stripped(propertyId.text)))
           => constructPropertyResourceName(propertyId)
                 = Identifier(Stripped(propertyId.text))
        /\ (propertyId.type = "string" /\ Prefixed(Stripped(propertyId.text))
            /\ IsDigits(Tail(Stripped(propertyId.text))))
           => constructPropertyResourceName(propertyId)
                 = Identifier(Tail(Stripped(propertyId.text)))
        /\ (propertyId.type = "string" /\ ~IsDigits(Stripped(propertyId.text))
            /\ ~Prefixed(Stripped(propertyId.text)))
           => (constructPropertyResourceName(propertyId) = "" /\ Rejected)
        /\ constructPropertyResourceName(propertyId) # "" => ~Rejected

\* ' properties/04' is accepted as properties/4 and the metadata call goes out
C14_Witness ==
    /\ propertyId = String(<<" ", "properties/", "0", "4">>)
       \/ propertyId = String(<<" ", "properties/", "4">>)
    /\ constructPropertyResourceName(propertyId) = "properties/4"
    /\ constructPropertyResourceName(Number(4)) = "properties/4"
    /\ constructPropertyResourceName(String(<<"4">>)) = "properties/4"
    /\ vpc = "metadata"
    /\ issued = <<MetadataCall>>

(***************************************************************************)
(* C15.  No credential source resolves.                                    *)
(***************************************************************************)
CachedClient(k) == IF k = "admin" THEN cachedAdminClient ELSE cachedDataClient

\* C15: a resolution that finds no source available fails with the no-credentials
\* error and caches nothing (no client of the requested kind, and the cache and
\* the auth mode stay as checkAndInvalidateCache left them: empty when no client
\* was cached before); the next request of the same kind runs the resolution again
\* and, once a source is available, no longer ends with that error but goes on
\* with the first available source.
C15_NoCredentialsCachesNothing ==
    [][\A r \in Reqs, k \in Kinds :
          Start(r, k) =>
              /\ (req'[r].resolved /\ FirstAvailable = "none") =>
                    /\ req'[r].pc = "failed"
                    /\ req'[r].error = NoCredentialsError
                    /\ req'[r].client = NullClient
                    /\ (IF k = "admin" THEN cachedAdminClient'
                                       ELSE cachedDataClient') = NullClient
                    /\ cachedAdminClient' = checkAndInvalidateCache.admin
                    /\ cachedDataClient' = checkAndInvalidateCache.data
                    /\ cachedAuthMode' = checkAndInvalidateCache.mode
                    /\ cachedEmail' = checkAndInvalidateCache.email
                    /\ (cachedAdminClient = NullClient /\ cachedDataClient = NullClient)
                       => cachedAuthMode' = "null"
              /\ (FoundNone(r) /\ req[r].kind = k) =>
                    /\ CachedClient(k) = NullClient
                    /\ req'[r].resolved /\ ~req'[r].fromCache
                    /\ FirstAvailable # "none" =>
                          /\ req'[r].error = ""
                          /\ req'[r].pc \in {"built", "refreshing", "authorizing"}
                          /\ req'[r].source = FirstAvailable]_vars

\* a request found no credentials, the shared token file was written, and the next
\* request of the same kind returned a client built from that file
C15_Witness ==
    \E r \in Reqs :
        /\ req[r].retry
        /\ req[r].pc = "done" /\ req[r].resolved
        /\ req[r].source = "token_file"
        /\ req[r].client.access_token = "shared"
        /\ CachedClient(req[r].kind) = req[r].client
        /\ cachedAuthMode = "access-token"

(***************************************************************************)
(* C16.  handleToolCall answers every call with a ToolResponse.            *)
(***************************************************************************)
\* C16: a tool call never throws: once it has ended it has returned a ToolResponse,
\* and after a failed credential resolution or refresh, an invalid property id, a
\* failed upstream call, unusable arguments or an unknown tool name that response
\* has isError = true.
C16_AlwaysAToolResponse ==
    /\ tool.pc # "threw"
    /\ tool.pc = "returned" =>
          /\ tool.response.returned
          /\ tool.cause # "" => tool.response.isError

(***************************************************************************)
(* C17.  One active credential variant.                                    *)
(***************************************************************************)
\* C17: whenever both the admin client and the reporting client are cached, both
\* were built from the same credential variant and cachedAuthMode names it.
C17_OneActiveVariant ==
    (cachedAdminClient # NullClient /\ cachedDataClient # NullClient) =>
        /\ cachedAdminClient.mode = cachedDataClient.mode
        /\ cachedAuthMode = cachedAdminClient.mode

(***************************************************************************)
(* C18.  A changed fingerprint clears the whole cache.                     *)
(***************************************************************************)
TokenFileOrder == <<SHARED_TOKEN_PATH, gtmTokenPath, ga4TokenPath>>

\* the token file a request fingerprints: the first one that exists, "" if none
ObservedFile ==
    IF \E i \in 1..3 : fs[TokenFileOrder[i]].exists
    THEN TokenFileOrder[CHOOSE i \in 1..3 :
                           /\ fs[TokenFileOrder[i]].exists
                           /\ \A j \in 1..(i - 1) : ~fs[TokenFileOrder[j]].exists]
    ELSE ""

\* a fingerprint was observed before and the one observed now is another one
FingerprintDiffers ==
    /\ ObservedFile # ""
    /\ cachedTokenPath # ""
    /\ <<ObservedFile, fs[ObservedFile].mtime>> # <<cachedTokenPath, cachedTokenMtime>>

\* C18: a client request that observes a fingerprint (path, mtime) other than the
\* last observed one drops the cached admin client, the cached reporting client,
\* the cached auth mode and the cached email, whatever the auth mode was, and
\* records the new fingerprint; the request then resolves the credentials again,
\* and the only mode there can be when it reaches its first await is the one a
\* client built on the spot has set.
C18_ChangedFingerprintClearsAll ==
    [][\A r \in Reqs, k \in Kinds :
          (Start(r, k) /\ FingerprintDiffers) =>
              /\ cachedAdminClient' = NullClient
              /\ cachedDataClient' = NullClient
              /\ cachedEmail' = ""
              /\ cachedAuthMode' = (IF req'[r].pc = "built" THEN req'[r].create ELSE "null")
              /\ req'[r].resolved /\ ~req'[r].fromCache
              /\ cachedTokenPath' = ObservedFile
              /\ cachedTokenMtime' = fs[ObservedFile].mtime]_vars

\* the shared token file was rewritten while a service-account client was cached:
\* the client, the mode and the email are gone and the new fingerprint is recorded
C18_Witness ==
    \E r \in Reqs :
        /\ req[r].changed
        /\ req[r].pc = "authorizing" /\ req[r].source = "service_account"
        /\ cachedAdminClient = NullClient /\ cachedDataClient = NullClient
        /\ cachedAuthMode = "null" /\ cachedEmail = ""
        /\ cachedTokenPath = SHARED_TOKEN_PATH
        /\ cachedTokenMtime = fs[SHARED_TOKEN_PATH].mtime
        /\ cachedTokenMtime = 2

(***************************************************************************)
(* C19.  No token file: the cache is trusted.                              *)
(***************************************************************************)
\* C19: a client request made while none of the three token files exists leaves
\* the cached clients, the cached email and the last observed fingerprint as they
\* are; if a client of the requested kind is cached it returns that client without
\* resolving and leaves the auth mode as it is, and otherwise the auth mode changes
\* only by the client the new resolution builds.  A fingerprinted file that has
\* been deleted makes no difference.
C19_NoTokenFileTrustsCache ==
    [][\A r \in Reqs, k \in Kinds :
          (Start(r, k) /\ ObservedFile = "") =>
              /\ UNCHANGED <<cachedAdminClient, cachedDataClient, cachedEmail,
                             cachedTokenMtime, cachedTokenPath>>
              /\ CachedClient(k) # NullClient =>
                    /\ UNCHANGED cachedAuthMode
                    /\ req'[r].pc = "done" /\ req'[r].fromCache /\ ~req'[r].resolved
                    /\ req'[r].client = CachedClient(k)
              /\ CachedClient(k) = NullClient =>
                    /\ req'[r].resolved
                    /\ cachedAuthMode' = (IF req'[r].pc = "built" THEN req'[r].create
                                                                 ELSE cachedAuthMode)]_vars

\* the fingerprinted token file was deleted, no token file is left, and the request
\* made after that returned the cached client under the old fingerprint
C19_Witness ==
    \E r \in Reqs :
        /\ ObservedFile = ""
        /\ cachedTokenPath = ga4TokenPath /\ cachedTokenMtime # -1
        /\ ~fs[cachedTokenPath].exists
        /\ req[r].pc = "done" /\ req[r].fromCache
        /\ req[r].kind \in settled
        /\ req[r].client = CachedClient(req[r].kind)
        /\ req[r].client.mode = "oauth" /\ cachedAuthMode = "oauth"

(***************************************************************************)
(* C20.  The fingerprint names the file that supplied the bare token.      *)
(***************************************************************************)
\* the token file a bare access token was read from, "" if it came from elsewhere
SupplyingFile(client) ==
    CASE client.mode # "access-token" -> ""
      [] client.access_token = "shared" -> SHARED_TOKEN_PATH
      [] client.access_token = "gtm" -> gtmTokenPath
      [] client.access_token = "ga4" -> ga4TokenPath
      [] OTHER -> ""

\* C20: whenever a cached client holds a bare access token read from a token file,
\* the recorded fingerprint path is the path of that file.
C20_FingerprintNamesSupplier ==
    \A k \in Kinds :
        SupplyingFile(CachedClient(k)) # "" =>
            cachedTokenPath = SupplyingFile(CachedClient(k))

(***************************************************************************)
(* C21.  The bare access token of the token files.                         *)
(***************************************************************************)
\* the token file at path p can supply a bare access token
Supplies(p) ==
    /\ Parsed(fs[p]) /\ fs[p].access_token # ""
    /\ p = ga4TokenPath =>
          (fs[p].refresh_token = "" \/ fs[p].client_id = "" \/ fs[p].client_secret = "")

BareTokenOfFiles ==
    IF \E i \in 1..3 : Supplies(TokenFileOrder[i])
    THEN fs[TokenFileOrder[CHOOSE i \in 1..3 :
                              /\ Supplies(TokenFileOrder[i])
                              /\ \A j \in 1..(i - 1) : ~Supplies(TokenFileOrder[j])]].access_token
    ELSE ""

\* C21: the lookup returns the access_token of the first of the shared file, the
\* GTM file and tokens.json that parses and has one, tokens.json counting only
\* when it lacks one of refresh_token, client_id, client_secret; a client built
\* from the token files carries that token.
C21_FirstFileWithToken ==
    /\ getAccessTokenOnlyFromFile = BareTokenOfFiles
    /\ \A r \in Reqs :
          (req[r].resolved /\ req[r].source = "token_file") =>
              /\ BareTokenOfFiles # ""
              /\ req[r].client.access_token = BareTokenOfFiles

\* the shared file does not parse, there is no GTM file, and tokens.json, which has
\* a refresh token and no client id, supplied the token of the client returned
C21_Witness ==
    \E r \in Reqs :
        /\ req[r].pc = "done" /\ req[r].source = "token_file"
        /\ fs[SHARED_TOKEN_PATH].exists /\ ~fs[SHARED_TOKEN_PATH].json
        /\ ~fs[gtmTokenPath].exists
        /\ fs[ga4TokenPath].refresh_token # "" /\ fs[ga4TokenPath].client_id = ""
        /\ req[r].client.access_token = fs[ga4TokenPath].access_token
        /\ req[r].client.access_token = "ga4"

(***************************************************************************)
(* C22.  A pairing is collected exactly when its counted rows sum above 0. *)
(***************************************************************************)
\* C22: in a returned summary, a pairing of a registered parameter p and an event e
\* is collected exactly when the eventCount of the rows returned for p with
\* eventName e, a value other than '' and '(not set)' and a count above 0 sums to
\* more than 0, and the count of a collected pairing is that sum.
C22_CollectedIffCountedSum ==
    vpc = "done" =>
        \A i \in DOMAIN summary.details :
            LET d == summary.details[i]
                sum == counted[d.parameter][d.eventName]
            IN  d.parameter \in registeredDimensions =>
                    /\ d.status = "collected" <=> sum > 0
                    /\ d.status = "collected" => d.count = sum
                    /\ d.status \in {"collected", "not_collected"}

\* two counted rows of one event add up to the count of a collected pairing while
\* another pairing of the same parameter is not collected
C22_Witness ==
    /\ vpc = "done"
    /\ \E i, j \in DOMAIN summary.details :
          /\ summary.details[i].status = "collected"
          /\ summary.details[i].count = 2
          /\ counted[summary.details[i].parameter][summary.details[i].eventName] = 2
          /\ summary.details[j].parameter = summary.details[i].parameter
          /\ summary.details[j].status = "not_collected"

(***************************************************************************)
(* C23.  The recommendations of a summary.                                 *)
(***************************************************************************)
\* the parameters of the details with the given status (and event name)
DetailParams(status) ==
    {summary.details[i].parameter :
        i \in {j \in DOMAIN summary.details : summary.details[j].status = status}}

MissingOf(e) ==
    {summary.details[i].parameter :
        i \in {j \in DOMAIN summary.details :
                  /\ summary.details[j].status = "not_collected"
                  /\ summary.details[j].eventName = e}}

MissingEvents ==
    {summary.details[i].eventName :
        i \in {j \in DOMAIN summary.details : summary.details[j].status = "not_collected"}}

\* the list is one aggregate line when a parameter is unregistered, then one line
\* per event with a not_collected pairing
WellFormedRecommendations ==
    LET recs == summary.recommendations
        aggregate == {i \in DOMAIN recs : recs[i].about = "register"}
        perEvent == {i \in DOMAIN recs : recs[i].about = "not_collected"}
    IN  /\ aggregate = (IF DetailParams("not_registered") # {} THEN {1} ELSE {})
        /\ \A i \in aggregate :
              /\ Range(recs[i].parameters) = DetailParams("not_registered")
              /\ Len(recs[i].parameters) = Cardinality(DetailParams("not_registered"))
        /\ Len(recs) = Cardinality(aggregate) + Cardinality(MissingEvents)
        /\ \A e \in MissingEvents :
              \E i \in perEvent :
                  /\ recs[i].eventName = e
                  /\ Range(recs[i].parameters) = MissingOf(e)
                  /\ \A j \in perEvent : recs[j].eventName = e => j = i
        /\ \A i \in perEvent : recs[i].eventName \in MissingEvents

\* C23: a run whose metadata call was answered (a failure is raised with at most
\* the metadata call issued) returns a summary, and its
\* recommendations are one aggregate line naming the distinct unregistered
\* parameters when there is one (none otherwise), followed by exactly one line per
\* distinct event name with a not_collected pairing, naming the not_collected
\* parameters of that event.
C23_OneLinePerEventInNeed ==
    /\ vpc = "thrown" => Len(issued) <= 1
    /\ vpc = "done" => WellFormedRecommendations

(***************************************************************************)
(* C24.  The parameters of an extracted event.                             *)
(***************************************************************************)
NoRepeat(list) == \A i, j \in DOMAIN list : list[i] = list[j] => i = j

\* C24: every event that parseGTMExport returns names each of its parameters
\* once, also when a tag has the name in more than one encoding or twice in one.
C24_NoRepeatedParameter ==
    extracted.returned =>
        \A i \in DOMAIN extracted.events : NoRepeat(extracted.events[i].parameters)

(***************************************************************************)
(* C25.  The input errors of handleGTMValidation.                          *)
(***************************************************************************)
\* C25: handleGTMValidation answers with an input error only when the request has
\* neither gtmEvents nor gtmExportJson; an export from which no event is extracted
\* is not reported as an error.
C25_InputErrorOnlyWithoutInput ==
    (tool.name = ValidationTool /\ tool.pc = "returned" /\ tool.cause = "arguments") =>
        (~tool.args.gtmEvents.given /\ ~tool.args.gtmExportJson.given)

(***************************************************************************)
(* C26.  The token file after a refresh.                                   *)
(***************************************************************************)
\* the fields of a token file other than the two a refresh replaces
KeptFields ==
    {"type", "refresh_token", "client_id", "client_secret", "client_email", "private_key"}

\* request r receives the answer of its refresh grant and writes the file
WritesBack(r) ==
    req[r].pc = "refreshing" /\ req[r].create = "oauth" /\ req'[r].pc = "built"

\* C26: when the refresh of a full-OAuth credential succeeds, the credential was
\* read from ~/.ga4-mcp/tokens.json, the file written holds every field that was
\* read with its value, except access_token and expiry_date, which are those of
\* the refreshed client, and no other file changes.
C26_WriteBackKeepsTheRest ==
    [][\A r \in Slots :
          WritesBack(r) =>
              LET read == req[r].tokens
                  written == fs'[ga4TokenPath]
              IN  /\ req[r].source = "oauth_file"
                  /\ written.exists /\ written.json
                  /\ \A f \in KeptFields : written[f] = read[f]
                  /\ written.access_token = req'[r].client.access_token
                  /\ written.expiry_date = req'[r].client.expiry_date
                  /\ written.access_token # read.access_token
                  /\ written.expiry_date > now
                  /\ \A q \in Paths \ {ga4TokenPath} : fs'[q] = fs[q]]_vars

C26_Witness ==
    \E r \in Slots :
        /\ req[r].writes = 1
        /\ req[r].tokens.client_email = "owner"
        /\ fs[ga4TokenPath].client_email = "owner"
        /\ fs[ga4TokenPath].access_token = "refreshed"

(***************************************************************************)
(* C28.  Two requests for the same client at once.                         *)
(***************************************************************************)
\* the requests for the client of kind k that have started and not yet returned
InFlight(k) == {r \in Slots : req[r].kind = k /\ ~Free(r)}

RECURSIVE Total(_, _)
Total(f, S) ==
    IF S = {} THEN 0
    ELSE LET r == CHOOSE x \in S : TRUE IN f[r] + Total(f, S \ {r})

\* C28: while two requests for the same client are in flight together, at most
\* one of them has run the credential resolution, and between them they have made
\* at most one refresh call and at most one write of the token file.
C28_OverlapResolvesOnce ==
    \A k \in Kinds :
        Cardinality(InFlight(k)) = 2 =>
            /\ Cardinality({r \in InFlight(k) : req[r].resolved}) <= 1
            /\ Total([r \in Slots |-> req[r].refreshes], InFlight(k)) <= 1
            /\ Total([r \in Slots |-> req[r].writes], InFlight(k)) <= 1

(***************************************************************************)
(* C30.  A full-OAuth credential without expiry.                           *)
(***************************************************************************)
\* C30: a full-OAuth credential from the GA4_* environment variables has no
\* expiry, and the resolution of a full-OAuth credential without expiry makes no
\* refresh call and no file write and builds its client at once, at any time.
C30_NoExpiryNoRefresh ==
    \A r \in Slots :
        (req[r].resolved /\ req[r].create = "oauth") =>
            /\ req[r].source = "oauth_env" => req[r].tokens.expiry_date = 0
            /\ req[r].tokens.expiry_date = 0 =>
                  /\ req[r].pc \in {"built", "done"}
                  /\ req[r].refreshes = 0 /\ ~req[r].granted
                  /\ req[r].writes = 0
                  /\ req[r].client.access_token = req[r].tokens.access_token

C30_Witness ==
    \E r \in Slots :
        /\ req[r].pc = "done" /\ req[r].resolved
        /\ req[r].source = "oauth_file"
        /\ req[r].tokens.expiry_date = 0
        /\ req[r].at = StartTime + RefreshMarginMs
        /\ fs[ga4TokenPath].mtime = 0

(***************************************************************************)
(* C29.  What getCredentialsInfo reports.                                  *)
(***************************************************************************)
\* no request is in flight and one has returned
AfterRequests == \A r \in Reqs : req[r].pc \in {"done", "failed"}

\* C29: once client requests have returned, getCredentialsInfo reports an email
\* only together with the mode service_account, and when the latest request
\* resolved a service account, the email is its client_email.
C29_EmailOnlyOfServiceAccount ==
    AfterRequests =>
        /\ getCredentialsInfo.email # "" => getCredentialsInfo.mode = "service_account"
        /\ \A r \in Reqs :
              (req[r].pc = "done" /\ req[r].resolved /\ req[r].create = "service_account")
                  => getCredentialsInfo.email = req[r].tokens.client_email

(***************************************************************************)
(* C27.  The counters and the details of a summary.                        *)
(***************************************************************************)
RECURSIVE ParametersBefore(_)
\* the number of (event, parameter) pairs of the input events before event i
ParametersBefore(i) ==
    IF i <= 1 THEN 0 ELSE ParametersBefore(i - 1) + Len(gtmEvents[i - 1].parameters)

\* C27: in every summary the three counters add up to the length of details, which
\* is the number of (event, parameter) pairs of the input; details names the pairs
\* in input order; totalEvents is the number of input events and totalParameters
\* the number of distinct parameter names.
C27_CountersAddUpToDetails ==
    summary.returned =>
        /\ summary.collected + summary.notCollected + summary.notRegistered
              = Len(summary.details)
        /\ Len(summary.details) = ParametersBefore(Len(gtmEvents) + 1)
        /\ \A i \in DOMAIN gtmEvents :
              \A j \in DOMAIN gtmEvents[i].parameters :
                  LET d == summary.details[ParametersBefore(i) + j]
                  IN  /\ d.eventName = gtmEvents[i].eventName
                      /\ d.parameter = gtmEvents[i].parameters[j]
        /\ summary.totalEvents = Len(gtmEvents)
        /\ summary.totalParameters = Cardinality(InputParams)

C27_Witness ==
    /\ summary.returned
    /\ Len(gtmEvents) = 2
    /\ \E i \in DOMAIN gtmEvents : \E j, h \in DOMAIN gtmEvents[i].parameters :
          j # h /\ gtmEvents[i].parameters[j] = gtmEvents[i].parameters[h]
    /\ summary.collected > 0 /\ summary.notCollected > 0
    /\ Len(summary.details) >= 3

====
